---- MODULE Spec2Model ----
(***************************************************************************)
(* A model of src/common/crypto.c (Tor's wrapper around OpenSSL): the      *)
(* hybrid RSA/AES-CTR envelope, the Diffie-Hellman exchange with its key   *)
(* expansion, the one-time global initialisation, and the reference-       *)
(* counted public-key object.                                              *)
(*                                                                         *)
(* OpenSSL and aes.c are collaborators outside the file.  They are         *)
(* modelled by what the calls in crypto.c rely on: RSA as an ideal block   *)
(* cipher with OpenSSL's length and range checks, AES-CTR as the XOR of a  *)
(* key- and position-dependent keystream, SHA-1 as a 20-byte digest.       *)
(***************************************************************************)
EXTENDS Integers, Sequences, FiniteSets, TLC

VARIABLES hy,    \* one hybrid encrypt / decrypt exchange
          dh,    \* the two Diffie-Hellman states and the last call's result
          gl,    \* process-wide state of crypto_global_init / _cleanup
          pk,    \* the heap of crypto_pk_env_t objects and RSA keys
          call   \* one call of a self-contained function: arguments, results

vars == <<hy, dh, gl, pk, call>>

(***************************************************************************)
(* Bytes                                                                   *)
(***************************************************************************)
RECURSIVE XorBits(_, _, _)
\* a ^ b on the low n bits, as aes_crypt applies it byte by byte.
XorBits(a, b, n) ==
  IF n = 0 THEN 0
  ELSE (((a % 2) + (b % 2)) % 2) + 2 * XorBits(a \div 2, b \div 2, n - 1)

Xor8(a, b) == XorBits(a, b, 8)

\* s[lo..hi] with 1-based inclusive indices; empty when hi < lo.
Slice(s, lo, hi) == [i \in 1..(IF hi >= lo THEN hi - lo + 1 ELSE 0) |-> s[lo + i - 1]]

Zeros(n) == [i \in 1..n |-> 0]

RECURSIVE BytesLess(_, _, _)
\* Unsigned big-endian a < b for two byte strings of equal length, from
\* index i on (BN_ucmp inside RSA_public_encrypt's range check).
BytesLess(a, b, i) ==
  IF i > Len(a) THEN FALSE
  ELSE IF a[i] # b[i] THEN a[i] < b[i]
  ELSE BytesLess(a, b, i + 1)

(***************************************************************************)
(* Facade constants                                                        *)
(***************************************************************************)
CIPHER_KEY_LEN == 16
DIGEST_LEN == 20

PK_NO_PADDING == "PK_NO_PADDING"
PK_PKCS1_PADDING == "PK_PKCS1_PADDING"
PK_PKCS1_OAEP_PADDING == "PK_PKCS1_OAEP_PADDING"
Paddings == {PK_NO_PADDING, PK_PKCS1_PADDING, PK_PKCS1_OAEP_PADDING}

\* crypto_get_rsa_padding_overhead(crypto_get_rsa_padding(padding))
crypto_get_rsa_padding_overhead(padding) ==
  CASE padding = PK_NO_PADDING -> 0
    [] padding = PK_PKCS1_OAEP_PADDING -> 42
    [] padding = PK_PKCS1_PADDING -> 11

(***************************************************************************)
(* RSA keys.  An RSA is [size, ntop, n, p]: the modulus length in bytes,   *)
(* the leading byte of the modulus, and whether n and p are set.           *)
(***************************************************************************)
\* The modulus as size bytes: leading byte ntop (its top bit set), then odd
\* filler.  Only the order of plaintext blocks against it matters.
Modulus(rsa) == [i \in 1..rsa.size |-> IF i = 1 THEN rsa.ntop ELSE 1]

\* #define PUBLIC_KEY_OK(k) / PRIVATE_KEY_OK(k), for a non-null env and key
PUBLIC_KEY_OK(rsa) == rsa.n
PRIVATE_KEY_OK(rsa) == rsa.p

crypto_pk_keysize(rsa) == rsa.size

NoBlock == [pad |-> "none", pt |-> <<>>]

\* RSA_public_encrypt as crypto_pk_public_encrypt calls it: r < 0 becomes -1.
\* The ciphertext block is always size bytes; it is kept as the padding
\* mode and plaintext it seals.
crypto_pk_public_encrypt(rsa, from, padding) ==
  LET fits ==
        CASE padding = PK_NO_PADDING ->
               /\ Len(from) = rsa.size
               /\ BytesLess(from, Modulus(rsa), 1)
          [] OTHER ->
               Len(from) + crypto_get_rsa_padding_overhead(padding) <= rsa.size
  IN IF fits THEN [ret |-> rsa.size, blk |-> [pad |-> padding, pt |-> from]]
     ELSE [ret |-> -1, blk |-> NoBlock]

\* crypto_pk_private_decrypt without its "if (!env->key->p) return -1".
crypto_pk_private_decrypt_nocheck(rsa, blk, padding) ==
  IF blk.pad # padding THEN [ret |-> -1, out |-> <<>>]
  ELSE [ret |-> Len(blk.pt), out |-> blk.pt]

\* crypto_pk_private_decrypt on one RSA block (fromlen <= keysize).
crypto_pk_private_decrypt(rsa, blk, padding) ==
  IF ~rsa.p THEN [ret |-> -1, out |-> <<>>]        \* Not a private key
  ELSE IF blk.pad # padding THEN [ret |-> -1, out |-> <<>>]
  ELSE [ret |-> Len(blk.pt), out |-> blk.pt]

(***************************************************************************)
(* AES-CTR (aes.c): a cipher is a key and a stream position.               *)
(***************************************************************************)
RECURSIVE KeyMix(_, _)
KeyMix(key, i) ==
  IF i > Len(key) THEN 0 ELSE (key[i] * i + 3 * KeyMix(key, i + 1)) % 251

\* Keystream byte number pos (from 0) under key.
KeyStreamByte(key, pos) == (KeyMix(key, 1) * 13 + pos * 29 + 7) % 256

\* aes_crypt(cipher, from, fromlen, to) with the counter at byte pos.
aes_crypt(key, pos, from) ==
  [i \in 1..Len(from) |-> Xor8(from[i], KeyStreamByte(key, pos + i - 1))]

(***************************************************************************)
(* Hybrid public-key encryption                                            *)
(***************************************************************************)
\* What a call did: it returned, it died on a tor_assert, or it ran into
\* undefined behaviour and was killed.
Returned == "returned"
Aborted == "tor_assert"

\* The ways the build can die once memcpy() has been told to read past the
\* end of from and symlen has wrapped around: in the memcpy itself, or in
\* aes_crypt running over symlen (close to SIZE_MAX) bytes.
OverreadOutcomes == {"segv_memcpy", "segv_aes_crypt"}

HyResult(status, ret, blk, tail) ==
  [status |-> status, ret |-> ret, blk |-> blk, tail |-> tail]

\* crypto_cipher_generate_key, then "cipher->key[0] &= 0x7f" under no padding.
HybridSymKey(rnd, padding) ==
  IF padding = PK_NO_PADDING THEN [rnd EXCEPT ![1] = @ % 128] ELSE rnd

\* crypto_pk_public_hybrid_encrypt; rnd is what crypto_rand delivers, rngOk
\* whether it succeeds, ub the outcome of the out-of-bounds read if there
\* is one.
crypto_pk_public_hybrid_encrypt(rsa, from, padding, force, rnd, rngOk, ub) ==
  LET overhead == crypto_get_rsa_padding_overhead(padding)
      pkeylen == crypto_pk_keysize(rsa)
      fromlen == Len(from)
      key == HybridSymKey(rnd, padding)
      prefix == pkeylen - overhead - CIPHER_KEY_LEN
      buf == key \o Slice(from, 1, prefix)
      symlen == fromlen - prefix
      one == crypto_pk_public_encrypt(rsa, from, padding)
      enc == crypto_pk_public_encrypt(rsa, buf, padding)
  IN IF padding = PK_NO_PADDING /\ fromlen < pkeylen
       THEN HyResult(Returned, -1, NoBlock, <<>>)
     ELSE IF ~force /\ fromlen + overhead <= pkeylen
       THEN HyResult(Returned, one.ret, one.blk, <<>>)
     ELSE IF ~rngOk
       THEN HyResult(Returned, -1, NoBlock, <<>>)
     ELSE IF fromlen < prefix          \* memcpy reads from[fromlen..prefix)
       THEN HyResult(ub, 0, NoBlock, <<>>)
     ELSE IF enc.ret # pkeylen
       THEN HyResult(Returned, -1, NoBlock, <<>>)
     ELSE IF symlen = 0                \* tor_assert(fromlen) in crypto_cipher_encrypt
       THEN HyResult(Aborted, 0, NoBlock, <<>>)
     ELSE HyResult(Returned, enc.ret + symlen, enc.blk,
                   aes_crypt(key, 0, Slice(from, prefix + 1, fromlen)))

HyPlain(status, ret, out) == [status |-> status, ret |-> ret, out |-> out]

\* crypto_pk_private_hybrid_decrypt of the fromlen = keysize + Len(tail)
\* bytes blk || tail.
crypto_pk_private_hybrid_decrypt(rsa, blk, tail, padding) ==
  LET pkeylen == crypto_pk_keysize(rsa)
      fromlen == pkeylen + Len(tail)
      d == crypto_pk_private_decrypt(rsa, blk, padding)
      outlen == d.ret - CIPHER_KEY_LEN
  IN IF fromlen <= pkeylen THEN HyPlain(Returned, d.ret, d.out)
     ELSE IF d.ret < 0 THEN HyPlain(Returned, -1, <<>>)
     ELSE IF d.ret < CIPHER_KEY_LEN THEN HyPlain(Returned, -1, <<>>)
     ELSE HyPlain(Returned, outlen + (fromlen - pkeylen),
                  Slice(d.out, CIPHER_KEY_LEN + 1, d.ret)
                    \o aes_crypt(Slice(d.out, 1, CIPHER_KEY_LEN), 0, tail))

(***************************************************************************)
(* The temporary buffer and cipher object of the hybrid functions.  A byte *)
(* of the buffer that was never written is -1.  A released buffer is kept  *)
(* as [alloc, freed, held, bytes]: whether it was allocated and released,  *)
(* how many leading bytes ever held key or plaintext, and the content at   *)
(* release; a cipher object as [alloc, freed, key], key being the content  *)
(* of its key field at release.                                            *)
(***************************************************************************)
NoBuf == [alloc |-> FALSE, freed |-> FALSE, held |-> 0, bytes |-> <<>>]
NoCipher == [alloc |-> FALSE, freed |-> FALSE, key |-> <<>>]
HyMem(buf, cipher) == [buf |-> buf, cipher |-> cipher]

\* buf = tor_malloc(pkeylen+1) with data copied to its front.
HybridBuf(pkeylen, data) ==
  [i \in 1..(pkeylen + 1) |-> IF i <= Len(data) THEN data[i] ELSE -1]

\* A memset that clears the symmetric key only.
HybridWipe_keyonly(buf, n) ==
  [i \in 1..Len(buf) |-> IF i <= CIPHER_KEY_LEN THEN 0 ELSE buf[i]]

\* memset(buf, 0, n)
HybridWipe(buf, n) ==
  [i \in 1..Len(buf) |-> IF i <= n THEN 0 ELSE buf[i]]

\* crypto_free_cipher_env: the object, key included, is cleared and freed.
crypto_free_cipher_env(key) ==
  [alloc |-> TRUE, freed |-> TRUE, key |-> Zeros(Len(key))]

\* What crypto_pk_public_hybrid_encrypt does to buf and cipher.
HybridEncryptMem(rsa, from, padding, force, rnd, rngOk) ==
  LET overhead == crypto_get_rsa_padding_overhead(padding)
      pkeylen == crypto_pk_keysize(rsa)
      fromlen == Len(from)
      key == HybridSymKey(rnd, padding)
      prefix == pkeylen - overhead - CIPHER_KEY_LEN
      data == key \o Slice(from, 1, prefix)
      enc == crypto_pk_public_encrypt(rsa, data, padding)
      live == [alloc |-> TRUE, freed |-> FALSE, held |-> Len(data),
               bytes |-> HybridBuf(pkeylen, data)]
      released == [live EXCEPT !.freed = TRUE, !.bytes = HybridWipe(@, pkeylen)]
  IN IF padding = PK_NO_PADDING /\ fromlen < pkeylen
       THEN HyMem(NoBuf, NoCipher)
     ELSE IF ~force /\ fromlen + overhead <= pkeylen
       THEN HyMem(NoBuf, NoCipher)
     ELSE IF ~rngOk                    \* goto err with buf still NULL
       THEN HyMem(NoBuf, crypto_free_cipher_env(rnd))
     ELSE IF fromlen < prefix          \* killed in or after the memcpy
       THEN HyMem([alloc |-> TRUE, freed |-> FALSE, held |-> 0, bytes |-> <<>>],
                  [alloc |-> TRUE, freed |-> FALSE, key |-> key])
     ELSE IF enc.ret # pkeylen         \* goto err
       THEN HyMem(released, crypto_free_cipher_env(key))
     ELSE IF fromlen - prefix = 0      \* dies in crypto_cipher_encrypt
       THEN HyMem(live, [alloc |-> TRUE, freed |-> FALSE, key |-> key])
     ELSE HyMem(released, crypto_free_cipher_env(key))

\* What crypto_pk_private_hybrid_decrypt does to buf and cipher.
HybridDecryptMem(rsa, blk, tail, padding) ==
  LET pkeylen == crypto_pk_keysize(rsa)
      fromlen == pkeylen + Len(tail)
      d == crypto_pk_private_decrypt(rsa, blk, padding)
      live == [alloc |-> TRUE, freed |-> FALSE, held |-> Len(d.out),
               bytes |-> HybridBuf(pkeylen, d.out)]
      released == [live EXCEPT !.freed = TRUE, !.bytes = HybridWipe(@, pkeylen)]
  IN IF fromlen <= pkeylen THEN HyMem(NoBuf, NoCipher)
     ELSE IF d.ret < 0 THEN HyMem(released, NoCipher)
     ELSE IF d.ret < CIPHER_KEY_LEN THEN HyMem(released, NoCipher)
     ELSE HyMem(released, crypto_free_cipher_env(Slice(d.out, 1, CIPHER_KEY_LEN)))

(***************************************************************************)
(* Inputs of the hybrid exchange                                           *)
(***************************************************************************)
\* Moduli of exactly 8 * size bits, as RSA_generate_key produces them.
KeySizes == {64, 128}
ModulusTop == 200

HybridKeys ==
  {[size |-> s, ntop |-> ModulusTop, n |-> TRUE, p |-> priv] :
     s \in KeySizes, priv \in BOOLEAN}

\* Number of message lengths tried above the hybrid threshold.
MaxOver == 1

\* Message lengths around the two thresholds T - 16 and T, around the key
\* size, and the lengths 100 and 500.
MsgLens(rsa, padding) ==
  LET T == rsa.size - crypto_get_rsa_padding_overhead(padding)
  IN {n \in ({0, 100, 500, rsa.size, rsa.size + 1}
              \cup ((T - CIPHER_KEY_LEN - 1)..(T - CIPHER_KEY_LEN + 1))
              \cup ((T - 1)..(T + MaxOver))) : n >= 0}

\* A message of n bytes starting with byte a.
Msg(n, a) == [i \in 1..n |-> (a + (i - 1) * 7) % 256]
MsgFirstBytes == {3, 255}

\* Values crypto_rand may put into cipher->key.
SymKeys == {[i \in 1..CIPHER_KEY_LEN |-> (17 * i) % 256],
            [i \in 1..CIPHER_KEY_LEN |-> (240 + i) % 256]}

NoEnc == HyResult("none", 0, NoBlock, <<>>)
NoDec == HyPlain("none", 0, <<>>)

HyIdle ==
  [phase |-> "idle", rsa |-> [size |-> 0, ntop |-> 0, n |-> FALSE, p |-> FALSE],
   from |-> <<>>, padding |-> PK_NO_PADDING, force |-> FALSE, rngOk |-> FALSE,
   enc |-> NoEnc, dec |-> NoDec,
   encmem |-> HyMem(NoBuf, NoCipher), decmem |-> HyMem(NoBuf, NoCipher)]

HybridInputs ==
  {[phase |-> "input", rsa |-> r, from |-> Msg(n, a), padding |-> pad,
    force |-> f, rngOk |-> ok, enc |-> NoEnc, dec |-> NoDec,
    encmem |-> HyMem(NoBuf, NoCipher), decmem |-> HyMem(NoBuf, NoCipher)] :
     <<r, pad, n, a, f, ok>> \in
       {t \in HybridKeys \X Paddings \X (0..(500)) \X MsgFirstBytes
                \X BOOLEAN \X BOOLEAN : t[3] \in MsgLens(t[1], t[2])}}

\* The caller runs crypto_pk_public_hybrid_encrypt on its message.
HybridEncrypt ==
  /\ hy.phase = "input"
  /\ \E rnd \in SymKeys, ub \in OverreadOutcomes :
       hy' = [hy EXCEPT
                !.phase = "encrypted",
                !.enc = crypto_pk_public_hybrid_encrypt(
                          hy.rsa, hy.from, hy.padding, hy.force, rnd, hy.rngOk, ub),
                !.encmem = HybridEncryptMem(
                             hy.rsa, hy.from, hy.padding, hy.force, rnd, hy.rngOk)]
  /\ UNCHANGED <<dh, gl, pk, call>>

\* The holder of the key runs crypto_pk_private_hybrid_decrypt on the bytes
\* the encryption returned.
HybridDecrypt ==
  /\ hy.phase = "encrypted"
  /\ hy.enc.status = Returned
  /\ hy.enc.ret >= 0
  /\ hy' = [hy EXCEPT
              !.phase = "decrypted",
              !.dec = crypto_pk_private_hybrid_decrypt(
                        hy.rsa, hy.enc.blk, hy.enc.tail, hy.padding),
              !.decmem = HybridDecryptMem(
                           hy.rsa, hy.enc.blk, hy.enc.tail, hy.padding)]
  /\ UNCHANGED <<dh, gl, pk, call>>

(***************************************************************************)
(* SHA-1 and the key expansion                                             *)
(***************************************************************************)
RECURSIVE DigestMix(_, _, _)
DigestMix(m, i, acc) ==
  IF i > Len(m) THEN acc
  ELSE DigestMix(m, i + 1, (acc * 31 + m[i] + Len(m) + 1) % 65521)

\* Byte i (from 1) of the SHA-1 digest of m: it depends on every byte of m
\* and on its length.
DigestByte(m, i) == (DigestMix(m, 1, 7) * i + 11 * i) % 256

\* crypto_digest(digest, m, len)
crypto_digest(m) == [i \in 1..DIGEST_LEN |-> DigestByte(m, i)]

\* The largest key_out_len crypto_expand_key_material accepts.
KDF_MAX == DIGEST_LEN * 256

\* crypto_expand_key_material: the first key_out_len bytes of
\* H(K | [00]) | H(K | [01]) | ...  Pass i of the loop sets tmp[key_in_len]
\* to (char)i and copies MIN(DIGEST_LEN, bytes left) digest bytes, so byte j
\* (from 1) of key_out is byte ((j-1) mod 20) + 1 of the digest of pass
\* (j-1) div 20.
crypto_expand_key_material(key_in, key_out_len) ==
  [j \in 1..key_out_len |->
     DigestByte(key_in \o <<((j - 1) \div DIGEST_LEN) % 256>>,
                ((j - 1) % DIGEST_LEN) + 1)]

(***************************************************************************)
(* Diffie-Hellman.  TLC's integers have 32 bits, so the 1024-bit group of  *)
(* init_dh_param is scaled down to an 11-bit safe prime with the same      *)
(* generator; every length is derived from the modulus as the code         *)
(* derives it, so DH_BYTES is BN_num_bytes(p) = 2 here.                    *)
(***************************************************************************)
DH_P == 2039
DH_G == 2
\* g generates the subgroup of order (p - 1) / 2, so g^DhOrder = 1.
DhOrder == (DH_P - 1) \div 2

RECURSIVE ModExp(_, _, _)
ModExp(b, e, m) ==
  IF e = 0 THEN 1 % m
  ELSE LET h == ModExp(b, e \div 2, m)
           sq == (h * h) % m
       IN IF e % 2 = 1 THEN (sq * b) % m ELSE sq

RECURSIVE BN_bn2bin(_)
\* Unsigned big-endian bytes of n without leading zeros (empty for 0).
BN_bn2bin(n) == IF n = 0 THEN <<>> ELSE BN_bn2bin(n \div 256) \o <<n % 256>>

BN_num_bytes(n) == Len(BN_bn2bin(n))

RECURSIVE BinAcc(_, _, _)
BinAcc(s, i, acc) == IF i > Len(s) THEN acc ELSE BinAcc(s, i + 1, acc * 256 + s[i])

\* BN_bin2bn: the number a byte string of any length denotes.
BN_bin2bn(s) == BinAcc(s, 1, 0)

\* DH_size(dh->dh), returned by crypto_dh_get_bytes
crypto_dh_get_bytes == BN_num_bytes(DH_P)

\* tor_check_dh_key comparing against p - 1 with > instead of >=.
tor_check_dh_key_offbyone(bn) ==
  IF bn <= 1 THEN -1
  ELSE IF bn > DH_P - 1 THEN -1
  ELSE 0

\* tor_check_dh_key whose first comparison is BN_cmp(bn, 1) < 0.
tor_check_dh_key_accepts_one(bn) ==
  IF bn < 1 THEN -1
  ELSE IF bn >= DH_P - 1 THEN -1
  ELSE 0

\* tor_check_dh_key: 0 if bn is in [2, p-2], else -1.
tor_check_dh_key(bn) ==
  IF bn <= 1 THEN -1
  ELSE IF bn >= DH_P - 1 THEN -1
  ELSE 0

\* A DH object: dh->dh->pub_key and priv_key are both null or both set.
DhNew == [keyed |-> FALSE, priv |-> 0, pub |-> 0]

\* crypto_dh_get_public writing g^x at the start of the buffer, so that the
\* zero bytes follow it.
DhExport_rightpad(d, pubkey_len) ==
  LET bytes == BN_num_bytes(d.pub)
  IN IF pubkey_len < bytes THEN [ret |-> -1, out |-> <<>>]
     ELSE [ret |-> 0, out |-> BN_bn2bin(d.pub) \o Zeros(pubkey_len - bytes)]

\* crypto_dh_get_public once dh->dh->pub_key is set.
DhExport(d, pubkey_len) ==
  LET bytes == BN_num_bytes(d.pub)
  IN IF pubkey_len < bytes THEN [ret |-> -1, out |-> <<>>]
     ELSE [ret |-> 0, out |-> Zeros(pubkey_len - bytes) \o BN_bn2bin(d.pub)]

\* The assertion that opens crypto_dh_compute_secret.
SecretLenAsserted(secret_bytes_out) == secret_bytes_out \div DIGEST_LEN <= 255

\* crypto_dh_compute_secret.  alloc tells whether secret_tmp was allocated
\* and tmp what it holds when tor_free releases it.
crypto_dh_compute_secret(d, pubkey, secret_bytes_out) ==
  LET pubkey_bn == BN_bin2bn(pubkey)
      shared == BN_bn2bin(ModExp(pubkey_bn, d.priv, DH_P))
      res(status, ret, out, alloc, tmp) ==
        [status |-> status, ret |-> ret, out |-> out, alloc |-> alloc, tmp |-> tmp]
  IN IF ~SecretLenAsserted(secret_bytes_out)
       THEN res(Aborted, 0, <<>>, FALSE, <<>>)
     ELSE IF tor_check_dh_key(pubkey_bn) < 0
       THEN res(Returned, -1, <<>>, FALSE, <<>>)
     ELSE IF ~d.keyed                     \* DH_compute_key() failed
       THEN res(Returned, -1, <<>>, TRUE, <<>>)
     ELSE res(Returned, secret_bytes_out,
              crypto_expand_key_material(shared, secret_bytes_out), TRUE, shared)

(***************************************************************************)
(* The Diffie-Hellman exchange between two parties                         *)
(***************************************************************************)
Parties == {"A", "B"}
Other(w) == IF w = "A" THEN "B" ELSE "A"

\* Private exponents DH_generate_key may draw: 1 up to MaxPriv, and the
\* group order, whose public value 1 fails tor_check_dh_key.
MaxPriv == 8
PrivExps == {1, MaxPriv} \cup {DhOrder}

\* Buffer lengths handed to crypto_dh_get_public: DH_BYTES - 1 up to
\* DH_BYTES + MaxPubPad.
MaxPubPad == 1
PubLens == (crypto_dh_get_bytes - 1)..(crypto_dh_get_bytes + MaxPubPad)

\* Lengths of key material asked of crypto_dh_compute_secret; one exchange
\* asks for the same length, dh.len, throughout.
OutLens == {0, 1, DIGEST_LEN, DIGEST_LEN + 1, KDF_MAX - 1, KDF_MAX}

\* Peer values an attacker may send, each in every encoding of at most
\* DH_BYTES + MaxPeerPad bytes (leading zero bytes included).
MaxPeerPad == 1
PeerValues == {0, 1, 2, DH_P - 2, DH_P - 1, DH_P, DH_P + 1, 256 * 256}
PeerEncodings ==
  {Zeros(k) \o BN_bn2bin(v) :
     <<v, k>> \in {t \in PeerValues \X (0..(crypto_dh_get_bytes + MaxPeerPad)) :
                     BN_num_bytes(t[1]) + t[2] <= crypto_dh_get_bytes + MaxPeerPad}}

\* The last crypto_dh_get_public call of a party, the last
\* crypto_dh_compute_secret call it made on its peer's exported value, and
\* the last crypto_dh_compute_secret call made on an attacker's value.
NoWire == [called |-> FALSE, len |-> 0, ret |-> 0, bytes |-> <<>>]
NoSecret == [called |-> FALSE, keyed |-> FALSE, len |-> 0, status |-> "none",
             ret |-> 0, out |-> <<>>]
NoAttack == [called |-> FALSE, keyed |-> FALSE, who |-> "A", peer |-> <<>>, len |-> 0,
             status |-> "none", ret |-> 0, out |-> <<>>]

DhIdle ==
  [st |-> [w \in Parties |-> DhNew], pc |-> [w \in Parties |-> "idle"],
   want |-> [w \in Parties |-> 0], gens |-> [w \in Parties |-> 0],
   wire |-> [w \in Parties |-> NoWire], sec |-> [w \in Parties |-> NoSecret],
   atk |-> NoAttack, tmp |-> [alloc |-> FALSE, bytes |-> <<>>],
   len |-> 0, dead |-> FALSE]

\* The tail of crypto_dh_get_public for party w whose state is d.
DhFinishGetPublic(w, d, pubkey_len) ==
  LET e == DhExport(d, pubkey_len)
  IN dh' = [dh EXCEPT
              !.st[w] = d,
              !.pc[w] = "idle",
              !.want[w] = 0,
              !.gens[w] = IF d = dh.st[w] THEN @ ELSE @ + 1,
              !.wire[w] = [called |-> TRUE, len |-> pubkey_len,
                           ret |-> e.ret, bytes |-> e.out]]

\* crypto_dh_get_public(dh, pubkey, pubkey_len) up to its call of
\* crypto_dh_generate_public, and to its end if pub_key is already set.
DhGetPublic(w) ==
  /\ ~dh.dead
  /\ dh.pc[w] = "idle"
  /\ \E pubkey_len \in PubLens :
       IF dh.st[w].keyed
         THEN DhFinishGetPublic(w, dh.st[w], pubkey_len)
         ELSE dh' = [dh EXCEPT !.pc[w] = "generating", !.want[w] = pubkey_len]
  /\ UNCHANGED <<hy, gl, pk, call>>

\* One pass of the "again:" loop of crypto_dh_generate_public inside
\* crypto_dh_get_public: DH_generate_key fails, or draws x and g^x is checked.
DhGenerateAttempt(w) ==
  /\ ~dh.dead
  /\ dh.pc[w] = "generating"
  /\ \E ok \in BOOLEAN, x \in PrivExps :
       LET pub == ModExp(DH_G, x, DH_P)
       IN IF ~ok
            THEN dh' = [dh EXCEPT
                          !.pc[w] = "idle",
                          !.want[w] = 0,
                          !.wire[w] = [called |-> TRUE, len |-> dh.want[w],
                                       ret |-> -1, bytes |-> <<>>]]
          ELSE IF tor_check_dh_key(pub) < 0
            THEN dh' = [dh EXCEPT !.st[w] = DhNew]      \* goto again
          ELSE DhFinishGetPublic(w, [keyed |-> TRUE, priv |-> x, pub |-> pub],
                                 dh.want[w])
  /\ UNCHANGED <<hy, gl, pk, call>>

\* Party w runs crypto_dh_compute_secret on the bytes its peer's last
\* successful crypto_dh_get_public wrote.
DhComputeSecret(w) ==
  /\ ~dh.dead
  /\ dh.pc[w] = "idle"
  /\ dh.wire[Other(w)].called
  /\ dh.wire[Other(w)].ret = 0
  /\ LET r == crypto_dh_compute_secret(dh.st[w], dh.wire[Other(w)].bytes, dh.len)
     IN dh' = [dh EXCEPT
                   !.sec[w] = [called |-> TRUE, keyed |-> dh.st[w].keyed, len |-> dh.len,
                               status |-> r.status,
                               ret |-> r.ret, out |-> r.out],
                   !.tmp = [alloc |-> r.alloc, bytes |-> r.tmp],
                   !.dead = (r.status # Returned)]
  /\ UNCHANGED <<hy, gl, pk, call>>

\* Party w runs crypto_dh_compute_secret on bytes an attacker chose; the
\* attacker's value arrives once in an exchange.
DhComputeSecretAttack(w) ==
  /\ ~dh.dead
  /\ dh.pc[w] = "idle"
  /\ ~dh.atk.called
  /\ \E pubkey \in PeerEncodings :
       LET r == crypto_dh_compute_secret(dh.st[w], pubkey, dh.len)
       IN dh' = [dh EXCEPT
                   !.atk = [called |-> TRUE, keyed |-> dh.st[w].keyed, who |-> w,
                            peer |-> pubkey,
                            len |-> dh.len, status |-> r.status, ret |-> r.ret,
                            out |-> r.out],
                   !.tmp = [alloc |-> r.alloc, bytes |-> r.tmp],
                   !.dead = (r.status # Returned)]
  /\ UNCHANGED <<hy, gl, pk, call>>

(***************************************************************************)
(* Global initialisation and cleanup (Unix build, TOR_IS_MULTITHREADED)    *)
(***************************************************************************)
\* CRYPTO_num_locks(): how many static locks the library asks for.
NumLocks == 2

\* How crypto_seed_rng finds the entropy files: none opens, the first that
\* opens yields fewer than ADD_ENTROPY bytes, or it yields them all.
EntropyOutcomes == {"none", "short", "full"}

\* crypto_seed_rng(startup): rand_poll_status is RAND_poll()'s result.
crypto_seed_rng(rand_poll_status, entropy) ==
  CASE entropy = "full" -> 0
    [] entropy = "short" -> -1
    [] entropy = "none" -> IF rand_poll_status # 0 THEN 0 ELSE -1

\* What a run of crypto_global_init / crypto_global_cleanup has done so far:
\* mutex arrays allocated, callback installations, successful engine
\* registrations, calls of crypto_seed_rng.
NoWork == [allocs |-> 0, callbacks |-> 0, engines |-> 0, seeds |-> 0]

GlIdle ==
  [initialized |-> FALSE,       \* _crypto_global_initialized
   mutexes |-> "NULL",          \* _openssl_mutexes
   n_mutexes |-> 0,             \* _n_openssl_mutexes
   live |-> 0,                  \* tor_mutex_t objects allocated and not freed
   locking_cb |-> FALSE,        \* CRYPTO_set_locking_callback was called
   engines |-> FALSE,           \* ENGINE_register_all_complete succeeded
   engine_asked |-> FALSE,      \* the initialising call had useAccel > 0
   seeded |-> FALSE,            \* some crypto_seed_rng call returned 0
   work |-> NoWork,
   ok_seen |-> FALSE,           \* some crypto_global_init call returned 0
   work_at_ok |-> NoWork,       \* work done when the first one returned 0
   calls |-> 0,
   last |-> [op |-> "none", accel |-> 0, ret |-> 0]]

\* Calls of crypto_global_init and crypto_global_cleanup in one run.
MaxGlobalCalls == 5

\* setup_openssl_threading
setup_openssl_threading(g) ==
  [g EXCEPT !.n_mutexes = NumLocks,
            !.mutexes = "heap",
            !.live = @ + NumLocks,
            !.locking_cb = TRUE,
            !.work.allocs = @ + 1,
            !.work.callbacks = @ + 1]

\* crypto_global_init without its test of _crypto_global_initialized.
crypto_global_init_unguarded(g, useAccel, engineOk, rand_poll_status, entropy) ==
  LET g1 == setup_openssl_threading([g EXCEPT !.initialized = TRUE,
                                              !.engine_asked = useAccel > 0])
  IN IF useAccel > 0 /\ ~engineOk
       THEN [g |-> g1, ret |-> -1]
     ELSE LET g2 == IF useAccel > 0
                      THEN [g1 EXCEPT !.engines = TRUE, !.work.engines = @ + 1]
                      ELSE g1
              r == crypto_seed_rng(rand_poll_status, entropy)
          IN [g |-> [g2 EXCEPT !.work.seeds = @ + 1, !.seeded = @ \/ r = 0],
              ret |-> r]

\* The state crypto_global_init(useAccel) leaves and the value it returns.
crypto_global_init(g, useAccel, engineOk, rand_poll_status, entropy) ==
  IF ~g.initialized
    THEN LET g1 == setup_openssl_threading([g EXCEPT !.initialized = TRUE,
                                                     !.engine_asked = useAccel > 0])
         IN IF useAccel > 0 /\ ~engineOk
              THEN [g |-> g1, ret |-> -1]
            ELSE LET g2 == IF useAccel > 0
                             THEN [g1 EXCEPT !.engines = TRUE, !.work.engines = @ + 1]
                             ELSE g1
                     r == crypto_seed_rng(rand_poll_status, entropy)
                 IN [g |-> [g2 EXCEPT !.work.seeds = @ + 1,
                                      !.seeded = @ \/ r = 0],
                     ret |-> r]
    ELSE [g |-> g, ret |-> 0]

\* crypto_global_cleanup: the mutexes are freed, the flag is left alone.
crypto_global_cleanup(g) ==
  IF g.n_mutexes # 0
    THEN [g EXCEPT !.mutexes = "NULL", !.n_mutexes = 0, !.live = @ - g.n_mutexes]
    ELSE g

GlobalInit ==
  /\ gl.calls < MaxGlobalCalls
  /\ \E useAccel \in {-1, 0, 1}, engineOk \in BOOLEAN,
        rand_poll_status \in {0, 1}, entropy \in EntropyOutcomes :
       LET r == crypto_global_init(gl, useAccel, engineOk, rand_poll_status, entropy)
       IN gl' = [r.g EXCEPT
                   !.calls = @ + 1,
                   !.last = [op |-> "init", accel |-> useAccel, ret |-> r.ret],
                   !.ok_seen = @ \/ r.ret = 0,
                   !.work_at_ok = IF ~gl.ok_seen /\ r.ret = 0 THEN r.g.work ELSE @]
  /\ UNCHANGED <<hy, dh, pk, call>>

GlobalCleanup ==
  /\ gl.calls < MaxGlobalCalls
  /\ gl' = [crypto_global_cleanup(gl) EXCEPT
              !.calls = @ + 1,
              !.last = [op |-> "cleanup", accel |-> 0, ret |-> 0]]
  /\ UNCHANGED <<hy, dh, pk, call>>

(***************************************************************************)
(* Public-key objects: a heap of crypto_pk_env_t and of RSA keys           *)
(***************************************************************************)
PK_BYTES == 128

\* Heap sizes, and how often one object is duplicated.
MaxEnvs == 2
MaxKeys == 2
MaxDups == 2
\* How often RSA_free may be called on one RSA.
MaxFrees == 2

EnvIds == 1..MaxEnvs
KeyIds == 1..MaxKeys
NULL == 0

\* A crypto_pk_env_t: refs and key as in the struct; dups and frees count
\* the crypto_pk_dup_key and crypto_free_pk_env calls made on it, rekeyed
\* tells whether generate or a read has replaced its key.
NoEnv == [state |-> "none", refs |-> 0, key |-> NULL,
          dups |-> 0, frees |-> 0, rekeyed |-> FALSE]
\* An RSA: n and p tell whether the modulus and the prime p are set, frees
\* counts the RSA_free calls made on it.
NoRsa == [state |-> "none", n |-> FALSE, p |-> FALSE, frees |-> 0]

PkLast(op, env, status, ret) == [op |-> op, env |-> env, status |-> status, ret |-> ret]

PkIdle ==
  [openssl097 |-> FALSE,        \* OPENSSL_VERSION_NUMBER < 0x00908000l
   env |-> [e \in EnvIds |-> NoEnv],
   rsa |-> [k \in KeyIds |-> NoRsa],
   last |-> PkLast("none", 0, "none", 0),
   dead |-> FALSE]

\* Handles callers still hold on object e.
Holders(e) == IF pk.env[e].state = "none" THEN 0
              ELSE 1 + pk.env[e].dups - pk.env[e].frees

FreeEnvIds == {e \in EnvIds : pk.env[e].state = "none"}
FreeKeyIds == {k \in KeyIds : pk.rsa[k].state = "none"}
NextEnv == CHOOSE e \in FreeEnvIds : \A f \in FreeEnvIds : e <= f
NextKey == CHOOSE k \in FreeKeyIds : \A j \in FreeKeyIds : k <= j

\* env->key points at memory RSA_free has released.
Dangling(e) == pk.env[e].key # NULL /\ pk.rsa[pk.env[e].key].state = "freed"

\* The RSA record the hybrid and RSA operators take, for key k.
RsaOf(k) == [size |-> PK_BYTES, ntop |-> ModulusTop,
             n |-> pk.rsa[k].n, p |-> pk.rsa[k].p]

\* RSA_free(k) on the heap h; nothing for a null pointer.
RSA_free(h, k) ==
  IF k = NULL THEN h
  ELSE [h EXCEPT ![k].state = "freed", ![k].frees = @ + 1]

\* _crypto_new_pk_env_rsa(rsa)
crypto_new_pk_env_rsa(k) ==
  [state |-> "live", refs |-> 1, key |-> k, dups |-> 0, frees |-> 0, rekeyed |-> FALSE]

Callable(e) == ~pk.dead /\ pk.env[e].state = "live" /\ Holders(e) > 0

\* RSA_free(env->key) stays within MaxFrees.
MayFreeKey(e) ==
  IF pk.env[e].key = NULL THEN TRUE ELSE pk.rsa[pk.env[e].key].frees < MaxFrees

\* The process ends inside op on e: a failed tor_assert or a fault.
PkDies(op, e, how) ==
  pk' = [pk EXCEPT !.dead = TRUE, !.last = PkLast(op, e, how, 0)]

\* crypto_new_pk_env: RSA_new() may fail, and then no object is made.
PkNew ==
  /\ ~pk.dead
  /\ FreeEnvIds # {}
  /\ FreeKeyIds # {}
  /\ \E ok \in BOOLEAN :
       IF ok
         THEN pk' = [pk EXCEPT
                       !.rsa[NextKey] = [NoRsa EXCEPT !.state = "live"],
                       !.env[NextEnv] = crypto_new_pk_env_rsa(NextKey),
                       !.last = PkLast("new", NextEnv, Returned, 0)]
         ELSE pk' = [pk EXCEPT !.last = PkLast("new", NULL, Returned, -1)]
  /\ UNCHANGED <<hy, dh, gl, call>>

\* crypto_pk_dup_key without its "env->refs++".
crypto_pk_dup_key_norefs(env) == env

\* crypto_pk_dup_key
crypto_pk_dup_key(env) == [env EXCEPT !.refs = @ + 1]

PkDup(e) ==
  /\ Callable(e)
  /\ pk.env[e].dups < MaxDups
  /\ IF pk.env[e].key = NULL
       THEN PkDies("dup", e, Aborted)                 \* tor_assert(env->key)
       ELSE pk' = [pk EXCEPT
                     !.env[e] = [crypto_pk_dup_key(@) EXCEPT !.dups = @ + 1],
                     !.last = PkLast("dup", e, Returned, 0)]
  /\ UNCHANGED <<hy, dh, gl, call>>

\* crypto_free_pk_env on the object env in the RSA heap h: the object and
\* the heap it leaves.
crypto_free_pk_env(env, h) ==
  IF env.refs - 1 > 0
    THEN [env |-> [env EXCEPT !.refs = @ - 1], rsa |-> h]
    ELSE [env |-> [env EXCEPT !.refs = @ - 1, !.state = "freed"],
          rsa |-> RSA_free(h, env.key)]

PkFree(e) ==
  /\ Callable(e)
  /\ LET r == crypto_free_pk_env(pk.env[e], pk.rsa)
     IN pk' = [pk EXCEPT
                 !.env[e] = [r.env EXCEPT !.frees = @ + 1],
                 !.rsa = r.rsa,
                 !.last = PkLast("free", e, Returned, 0)]
  /\ UNCHANGED <<hy, dh, gl, call>>

\* What the build can do when it reads or frees an RSA that RSA_free has
\* already released: fault, or go on with the stale contents.
UseAfterFree == {"segv", "stale"}
UafOutcomes(e) == IF Dangling(e) THEN UseAfterFree ELSE {"stale"}

PkOut(env, h, ret) == [env |-> env, rsa |-> h, ret |-> ret]

\* crypto_pk_generate_key on env in heap h.  r is the address RSA_new or
\* RSA_generate_key hands out.  outcome: "ok", "gen_fail" (the generator
\* reports failure), "alloc_fail" (BN_new, BN_set_word or RSA_new fails).
crypto_pk_generate_key(env, h, openssl097, outcome, r) ==
  LET h1 == RSA_free(h, env.key)
      full == [NoRsa EXCEPT !.state = "live", !.n = TRUE, !.p = TRUE]
      empty == [NoRsa EXCEPT !.state = "live"]
      key == IF openssl097
               THEN (IF outcome = "ok" THEN r ELSE NULL)
               ELSE (IF outcome = "alloc_fail" THEN env.key ELSE r)
      h2 == IF outcome = "ok" THEN [h1 EXCEPT ![r] = full]
            ELSE IF ~openssl097 /\ outcome = "gen_fail" THEN [h1 EXCEPT ![r] = empty]
            ELSE h1
  IN PkOut([env EXCEPT !.key = key], h2, IF key = NULL THEN -1 ELSE 0)

GenOutcomes == {"ok", "gen_fail", "alloc_fail"}

PkGenerate(e) ==
  /\ Callable(e)
  /\ MayFreeKey(e)
  /\ FreeKeyIds # {}
  /\ \E outcome \in GenOutcomes, uaf \in UafOutcomes(e) :
       IF uaf = "segv"
         THEN PkDies("generate", e, "segv")           \* RSA_free of a freed RSA
         ELSE LET o == crypto_pk_generate_key(pk.env[e], pk.rsa, pk.openssl097,
                                              outcome, NextKey)
              IN pk' = [pk EXCEPT
                          !.env[e] = [o.env EXCEPT !.rekeyed = TRUE],
                          !.rsa = o.rsa,
                          !.last = PkLast("generate", e, Returned, o.ret)]
  /\ UNCHANGED <<hy, dh, gl, call>>

\* crypto_pk_read_private_key_from_string: parsed tells whether
\* PEM_read_bio_RSAPrivateKey accepts s, r is the address of the RSA it makes.
crypto_pk_read_private_key_from_string(env, h, parsed, r) ==
  LET h1 == RSA_free(h, env.key)
  IN IF parsed
       THEN PkOut([env EXCEPT !.key = r],
                  [h1 EXCEPT ![r] = [NoRsa EXCEPT !.state = "live", !.n = TRUE, !.p = TRUE]],
                  0)
       ELSE PkOut([env EXCEPT !.key = NULL], h1, -1)

\* crypto_pk_read_public_key_from_string
crypto_pk_read_public_key_from_string(env, h, parsed, r) ==
  LET h1 == RSA_free(h, env.key)
  IN IF parsed
       THEN PkOut([env EXCEPT !.key = r],
                  [h1 EXCEPT ![r] = [NoRsa EXCEPT !.state = "live", !.n = TRUE]],
                  0)
       ELSE PkOut([env EXCEPT !.key = NULL], h1, -1)

PkRead(e) ==
  /\ Callable(e)
  /\ MayFreeKey(e)
  /\ FreeKeyIds # {}
  /\ \E private \in BOOLEAN, parsed \in BOOLEAN, uaf \in UafOutcomes(e) :
       LET op == IF private THEN "read_private" ELSE "read_public"
           o == IF private
                  THEN crypto_pk_read_private_key_from_string(
                         pk.env[e], pk.rsa, parsed, NextKey)
                  ELSE crypto_pk_read_public_key_from_string(
                         pk.env[e], pk.rsa, parsed, NextKey)
       IN IF uaf = "segv"
            THEN PkDies(op, e, "segv")                \* RSA_free of a freed RSA
            ELSE pk' = [pk EXCEPT
                          !.env[e] = [o.env EXCEPT !.rekeyed = TRUE],
                          !.rsa = o.rsa,
                          !.last = PkLast(op, e, Returned, o.ret)]
  /\ UNCHANGED <<hy, dh, gl, call>>

\* crypto_pk_copy_full: RSAPrivateKey_dup or RSAPublicKey_dup makes the RSA
\* at address r, or returns NULL, and _crypto_new_pk_env_rsa asserts it does
\* not.
PkCopyFull(e) ==
  /\ Callable(e)
  /\ FreeEnvIds # {}
  /\ FreeKeyIds # {}
  /\ \E dupOk \in BOOLEAN, uaf \in UafOutcomes(e) :
       LET k == pk.env[e].key
       IN IF k = NULL THEN PkDies("copy_full", e, Aborted)       \* tor_assert(env->key)
          ELSE IF uaf = "segv" THEN PkDies("copy_full", e, "segv")
          ELSE IF ~dupOk THEN PkDies("copy_full", e, Aborted)    \* tor_assert(rsa)
          ELSE pk' = [pk EXCEPT
                        !.rsa[NextKey] =
                           [NoRsa EXCEPT !.state = "live", !.n = pk.rsa[k].n,
                                         !.p = pk.rsa[k].p],
                        !.env[NextEnv] = crypto_new_pk_env_rsa(NextKey),
                        !.last = PkLast("copy_full", NextEnv, Returned, 0)]
  /\ UNCHANGED <<hy, dh, gl, call>>

(***************************************************************************)
(* Operations that need the private half of the key                        *)
(***************************************************************************)
PkRet(status, ret) == [status |-> status, ret |-> ret]

\* RSA_private_encrypt with RSA_PKCS1_PADDING signs at most size - 11 bytes.
crypto_pk_private_sign(rsa, from) ==
  IF ~rsa.p THEN -1                                   \* Not a private key
  ELSE IF Len(from) + crypto_get_rsa_padding_overhead(PK_PKCS1_PADDING) <= rsa.size
    THEN rsa.size
  ELSE -1

crypto_pk_private_sign_digest(rsa, from) ==
  crypto_pk_private_sign(rsa, crypto_digest(from))

\* crypto_pk_write_key_to_string_impl(env, dest, len, 0): the return value
\* follows PEM_write_bio_RSAPrivateKey alone.
crypto_pk_write_private_key_to_string(rsa, pemOk) ==
  IF ~pemOk THEN PkRet(Returned, -1) ELSE PkRet(Returned, 0)

\* crypto_pk_write_private_key_to_filename: ioOk tells whether BIO_new and
\* write_str_to_file succeed.
crypto_pk_write_private_key_to_filename(rsa, pemOk, ioOk) ==
  IF ~PRIVATE_KEY_OK(rsa) THEN PkRet(Aborted, 0)      \* tor_assert(PRIVATE_KEY_OK(env))
  ELSE IF ~pemOk THEN PkRet(Returned, -1)
  ELSE IF ioOk THEN PkRet(Returned, 0)
  ELSE PkRet(Returned, -1)

PrivateOps == {"private_decrypt", "private_sign", "private_sign_digest",
               "hybrid_decrypt", "write_private_to_string",
               "write_private_to_file"}

\* What the callers hand in: a short message, its PKCS1 encryption to the
\* key, and the hybrid encryption of a message longer than the key.
PkMsg == Msg(3, 3)
PkLongMsg == Msg(PK_BYTES + 1, 3)
PkPeer(rsa) == [rsa EXCEPT !.n = TRUE]
PkSealed(rsa) == crypto_pk_public_encrypt(PkPeer(rsa), PkMsg, PK_PKCS1_PADDING).blk
PkHybrid(rsa) ==
  crypto_pk_public_hybrid_encrypt(PkPeer(rsa), PkLongMsg, PK_PKCS1_PADDING, FALSE,
                                  [i \in 1..CIPHER_KEY_LEN |-> (17 * i) % 256],
                                  TRUE, "segv_memcpy")

\* The private operation op on a key that env->key points at.
PrivateOpOnKey(op, rsa, pemOk, ioOk) ==
  CASE op = "private_decrypt" ->
         PkRet(Returned, crypto_pk_private_decrypt(rsa, PkSealed(rsa), PK_PKCS1_PADDING).ret)
    [] op = "private_sign" ->
         PkRet(Returned, crypto_pk_private_sign(rsa, PkMsg))
    [] op = "private_sign_digest" ->
         PkRet(Returned, crypto_pk_private_sign_digest(rsa, PkMsg))
    [] op = "hybrid_decrypt" ->
         IF ~rsa.n THEN PkRet("segv", 0)              \* RSA_size reads the modulus
         ELSE LET c == PkHybrid(rsa)
                  d == crypto_pk_private_hybrid_decrypt(rsa, c.blk, c.tail, PK_PKCS1_PADDING)
              IN PkRet(d.status, d.ret)
    [] op = "write_private_to_string" ->
         crypto_pk_write_private_key_to_string(rsa, pemOk)
    [] op = "write_private_to_file" ->
         crypto_pk_write_private_key_to_filename(rsa, pemOk, ioOk)

\* The same with a null env->key: crypto_pk_private_sign reads env->key->p
\* without asserting env->key, the others die on an assertion.
PrivateOpOnNull(op) ==
  IF op \in {"private_sign", "private_sign_digest"}
    THEN PkRet("segv", 0) ELSE PkRet(Aborted, 0)

PkPrivateOp(e) ==
  /\ Callable(e)
  /\ \E op \in PrivateOps, pemOk \in BOOLEAN, ioOk \in BOOLEAN, uaf \in UafOutcomes(e) :
       LET k == pk.env[e].key
           r == IF k = NULL THEN PrivateOpOnNull(op)
                ELSE IF uaf = "segv" THEN PkRet("segv", 0)
                ELSE PrivateOpOnKey(op, RsaOf(k), pemOk, ioOk)
       IN pk' = [pk EXCEPT !.last = PkLast(op, e, r.status, r.ret),
                           !.dead = (r.status # Returned)]
  /\ UNCHANGED <<hy, dh, gl, call>>

(***************************************************************************)
(* Comparison of two public-key objects                                    *)
(***************************************************************************)
\* PUBLIC_KEY_OK(k) for an object pointer e (NULL or an object of heap envs
\* whose RSA keys live in h).
PublicKeyOk(e, envs, h) ==
  IF e = NULL THEN FALSE
  ELSE IF envs[e].key = NULL THEN FALSE
  ELSE h[envs[e].key].n

\* crypto_pk_cmp_keys without its "if (!a->key || !b->key) return -1".
crypto_pk_cmp_keys_nokeycheck(a, b, envs, h, ncmp, ecmp) ==
  IF a = NULL \/ b = NULL THEN PkRet(Returned, -1)
  ELSE IF ~PublicKeyOk(a, envs, h) THEN PkRet(Aborted, 0)
  ELSE IF ~PublicKeyOk(b, envs, h) THEN PkRet(Aborted, 0)
  ELSE IF ncmp # 0 THEN PkRet(Returned, ncmp)
  ELSE PkRet(Returned, ecmp)

\* crypto_pk_cmp_keys(a, b): ncmp and ecmp are what BN_cmp finds for the two
\* moduli and the two exponents.
crypto_pk_cmp_keys(a, b, envs, h, ncmp, ecmp) ==
  IF a = NULL \/ b = NULL THEN PkRet(Returned, -1)
  ELSE IF envs[a].key = NULL \/ envs[b].key = NULL THEN PkRet(Returned, -1)
  ELSE IF ~PublicKeyOk(a, envs, h) THEN PkRet(Aborted, 0)   \* tor_assert(PUBLIC_KEY_OK(a))
  ELSE IF ~PublicKeyOk(b, envs, h) THEN PkRet(Aborted, 0)   \* tor_assert(PUBLIC_KEY_OK(b))
  ELSE IF ncmp # 0 THEN PkRet(Returned, ncmp)
  ELSE PkRet(Returned, ecmp)

\* Pointers a caller can pass: NULL or an object it still holds.
Held == {e \in EnvIds : pk.env[e].state = "live" /\ Holders(e) > 0}
BnCmp == {-1, 0, 1}

\* What BN_cmp may find for the RSA keys of a and b: 0 for one and the same
\* RSA, anything for two.
CmpOutcomes(a, b) ==
  IF a # NULL /\ b # NULL /\ pk.env[a].key = pk.env[b].key THEN {0} ELSE BnCmp

\* The call reads a->key->n and b->key->n only when no pointer is null.
CmpUafOutcomes(a, b) ==
  IF a = NULL \/ b = NULL THEN {"stale"}
  ELSE IF pk.env[a].key = NULL \/ pk.env[b].key = NULL THEN {"stale"}
  ELSE UafOutcomes(a) \cup UafOutcomes(b)

PkCmpKeys ==
  /\ ~pk.dead
  /\ \E a \in Held \cup {NULL}, b \in Held \cup {NULL} :
       \E ncmp \in CmpOutcomes(a, b), ecmp \in CmpOutcomes(a, b),
          uaf \in CmpUafOutcomes(a, b) :
         LET r == IF uaf = "segv" THEN PkRet("segv", 0)
                  ELSE crypto_pk_cmp_keys(a, b, pk.env, pk.rsa, ncmp, ecmp)
         IN pk' = [pk EXCEPT
                     !.last = [op |-> "cmp_keys", env |-> a, other |-> b,
                               status |-> r.status, ret |-> r.ret],
                     !.dead = (r.status # Returned)]
  /\ UNCHANGED <<hy, dh, gl, call>>

(***************************************************************************)
(* Random integers below a bound.  TLC's integers cannot hold UINT_MAX, so *)
(* unsigned int and int are taken WordBits wide and uint64_t WideBits      *)
(* wide; every constant is derived from the width as limits.h derives it.  *)
(***************************************************************************)
CallIdle == [op |-> "none"]

WordBits == 4
WideBits == 5

RECURSIVE Pow2(_)
Pow2(n) == IF n = 0 THEN 1 ELSE 2 * Pow2(n - 1)

\* The width of the unsigned type f works in.
RandBits(f) == IF f = "crypto_rand_int" THEN WordBits ELSE WideBits
\* UINT_MAX for crypto_rand_int, UINT64_MAX for crypto_rand_uint64
RandTypeMax(f) == Pow2(RandBits(f)) - 1

\* "cutoff = UINT_MAX - (UINT_MAX%max)" without the subtraction.
RandCutoff_nosub(f, max) == RandTypeMax(f)

\* cutoff = UINT_MAX - (UINT_MAX%max)
RandCutoff(f, max) == RandTypeMax(f) - (RandTypeMax(f) % max)

\* "return val % max": the unsigned value v as the caller receives it, in
\* int (two's complement) from crypto_rand_int, unchanged in uint64_t from
\* crypto_rand_uint64.
RandReturn(f, v) ==
  IF f = "crypto_rand_int" /\ v >= Pow2(RandBits(f) - 1)
    THEN v - Pow2(RandBits(f))
    ELSE v

RandFunctions == {"crypto_rand_int", "crypto_rand_uint64"}

RandCalls ==
  {[op |-> f, max |-> m, pc |-> "entry", val |-> 0, rejected |-> -1, mod |-> 0,
    ret |-> 0, status |-> "none"] :
     <<f, m>> \in {t \in RandFunctions \X (0..Pow2(WideBits)) : t[2] <= RandTypeMax(t[1])}}

\* tor_assert(max < UINT_MAX); tor_assert(max > 0);
RandEnter ==
  /\ call.op \in RandFunctions
  /\ call.pc = "entry"
  /\ IF call.max < RandTypeMax(call.op) /\ call.max > 0
       THEN call' = [call EXCEPT !.pc = "draw"]
       ELSE call' = [call EXCEPT !.pc = "done", !.status = Aborted]
  /\ UNCHANGED <<hy, dh, gl, pk>>

\* One pass of "while (1)": crypto_rand fills val (its result is not
\* looked at, so val is any value of the type), and val is returned modulo
\* max if it is below the cutoff.  rejected is the last value drawn that
\* was not, -1 if there is none.
RandDraw ==
  /\ call.op \in RandFunctions
  /\ call.pc = "draw"
  /\ \E val \in 0..RandTypeMax(call.op) :
       IF val < RandCutoff(call.op, call.max)
         THEN call' = [call EXCEPT !.pc = "done", !.status = Returned,
                                   !.val = val, !.mod = val % call.max,
                                   !.ret = RandReturn(call.op, val % call.max)]
         ELSE call' = [call EXCEPT !.rejected = val]   \* drawn again
  /\ UNCHANGED <<hy, dh, gl, pk>>

(***************************************************************************)
(* Specifications                                                          *)
(***************************************************************************)
\* One hybrid encryption and its decryption.
InitHybrid ==
  hy \in HybridInputs /\ dh = DhIdle /\ gl = GlIdle /\ pk = PkIdle /\ call = CallIdle
NextHybrid == HybridEncrypt \/ HybridDecrypt
SpecHybrid == InitHybrid /\ [][NextHybrid]_vars

\* Two parties run one DH handshake for a session key of dh.len bytes.
InitDH ==
  /\ dh \in {[DhIdle EXCEPT !.len = n] : n \in OutLens}
  /\ hy = HyIdle /\ gl = GlIdle /\ pk = PkIdle /\ call = CallIdle
NextDH == \E w \in Parties : DhGetPublic(w) \/ DhGenerateAttempt(w) \/ DhComputeSecret(w)
SpecDH == InitDH /\ [][NextDH]_vars

\* One party is handed a public value by an arbitrary peer.
NextDHPeer == DhGetPublic("A") \/ DhGenerateAttempt("A") \/ DhComputeSecretAttack("A")
SpecDHPeer == InitDH /\ [][NextDHPeer]_vars

\* Callers of crypto_global_init and crypto_global_cleanup.
InitGlobal ==
  gl = GlIdle /\ hy = HyIdle /\ dh = DhIdle /\ pk = PkIdle /\ call = CallIdle
NextGlobal == GlobalInit \/ GlobalCleanup
SpecGlobal == InitGlobal /\ [][NextGlobal]_vars

\* Callers that create, share, rekey, copy and release public-key objects,
\* on either OpenSSL.
InitPk ==
  /\ pk \in {[PkIdle EXCEPT !.openssl097 = b] : b \in BOOLEAN}
  /\ hy = HyIdle /\ dh = DhIdle /\ gl = GlIdle /\ call = CallIdle
NextPk ==
  \/ PkNew
  \/ \E e \in EnvIds :
       PkDup(e) \/ PkFree(e) \/ PkGenerate(e) \/ PkRead(e) \/ PkCopyFull(e)
SpecPk == InitPk /\ [][NextPk]_vars

\* Callers that load a key into an object, use its private half and compare
\* objects.
NextPkPrivate ==
  \/ PkNew
  \/ \E e \in EnvIds : PkGenerate(e) \/ PkRead(e) \/ PkPrivateOp(e)
  \/ PkCmpKeys
SpecPkPrivate == InitPk /\ [][NextPkPrivate]_vars

\* One call of crypto_rand_int or crypto_rand_uint64.
InitRand ==
  /\ call \in RandCalls
  /\ hy = HyIdle /\ dh = DhIdle /\ gl = GlIdle /\ pk = PkIdle
NextRand == RandEnter \/ RandDraw
SpecRand == InitRand /\ [][NextRand]_vars

(***************************************************************************)
(* Properties                                                              *)
(***************************************************************************)
\* The hybrid call is within its contract: crypto_rand delivers, and a
\* message sent as one unpadded RSA block is a number below the modulus.
HyInContract ==
  /\ hy.rngOk
  /\ (hy.padding = PK_NO_PADDING /\ ~hy.force /\ Len(hy.from) = hy.rsa.size)
       => hy.from[1] < hy.rsa.ntop

\* C1: hybrid round trip.  For every key pair, padding mode, message length
\* N >= 0 and both values of force, the encryption returns and
\* crypto_pk_private_hybrid_decrypt of its output returns exactly the N
\* message bytes (without padding, N < K is refused by design).
C1_RoundTrip ==
  (/\ hy.phase \in {"encrypted", "decrypted"}
   /\ HyInContract
   /\ hy.rsa.p
   /\ ~(hy.padding = PK_NO_PADDING /\ Len(hy.from) < hy.rsa.size))
  => /\ hy.enc.status = Returned
     /\ hy.enc.ret > 0
     /\ hy.phase = "decrypted"
          => hy.dec.ret = Len(hy.from) /\ hy.dec.out = hy.from

\* The value C2 states for key size K, overhead O and message length N.
HybridRetClaimed(K, O, N, padding, force) ==
  IF padding = PK_NO_PADDING /\ N < K THEN -1
  ELSE IF ~force /\ N <= K - O THEN K
  ELSE K + (N - (K - O) + CIPHER_KEY_LEN)

\* C2: crypto_pk_public_hybrid_encrypt returns -1 if padding = NO and N < K,
\* else K if force is false and N <= T = K - O, else K + (N - T + 16).
C2_ReturnValue ==
  (hy.phase \in {"encrypted", "decrypted"} /\ HyInContract)
  => /\ hy.enc.status = Returned
     /\ hy.enc.ret = HybridRetClaimed(hy.rsa.size,
                                      crypto_get_rsa_padding_overhead(hy.padding),
                                      Len(hy.from), hy.padding, hy.force)

\* Both parties hold a key and have run crypto_dh_compute_secret on what
\* the other exported.
BothComputed == \A w \in Parties : dh.sec[w].called /\ dh.sec[w].keyed

\* Agreement for the exchange under way.
DhAgreement ==
  /\ \A w \in Parties :
       dh.sec[w].called /\ dh.sec[w].keyed
         => /\ dh.sec[w].status = Returned
            /\ dh.sec[w].ret = dh.len
            /\ Len(dh.sec[w].out) = dh.len
  /\ BothComputed => dh.sec["A"].out = dh.sec["B"].out

\* C3 as stated: two parties that each generated a key both succeed and
\* write identical out_len bytes, for every out_len from 0 up to and
\* including 5120 = 256 * DIGEST_LEN.
C3_AgreementUpTo5120 == dh.len <= KDF_MAX => DhAgreement

\* C3 as amended: the same for every out_len from 0 up to and including
\* 5119, the largest length the opening assertion of
\* crypto_dh_compute_secret admits.
C3_Agreement == dh.len <= KDF_MAX - 1 => DhAgreement

C3_Witness ==
  /\ BothComputed
  /\ dh.len = KDF_MAX - 1
  /\ dh.st["A"].priv # dh.st["B"].priv
  /\ dh.sec["A"].ret = KDF_MAX - 1
  /\ dh.sec["A"].out = dh.sec["B"].out

\* The number the attacker's bytes denote.
AtkValue == BN_bin2bn(dh.atk.peer)
AtkRejected == dh.atk.status = Returned /\ dh.atk.ret = -1 /\ dh.atk.out = <<>>

\* C4 as stated: crypto_dh_compute_secret fails and writes no key material
\* for the peer values 0, 1, p-1, p, p+1, every value above p-2, and every
\* peer value supplied in more than DH_BYTES bytes, leading zeros included.
C4_RejectsLongEncodings ==
  (/\ dh.atk.called
   /\ SecretLenAsserted(dh.atk.len)
   /\ \/ AtkValue <= 1
      \/ AtkValue >= DH_P - 1
      \/ Len(dh.atk.peer) > crypto_dh_get_bytes)
  => AtkRejected

\* C4 as amended: the peer value is judged by the number it denotes alone.
\* Values 0, 1 and every value from p-1 up are refused with no key material
\* written, in any encoding; a value in [2, p-2] is accepted in any
\* encoding, also one longer than DH_BYTES with leading zero bytes.
C4_RejectsByValue ==
  (dh.atk.called /\ SecretLenAsserted(dh.atk.len))
  => /\ dh.atk.status = Returned
     /\ (AtkValue <= 1 \/ AtkValue >= DH_P - 1) => AtkRejected
     /\ (AtkValue >= 2 /\ AtkValue <= DH_P - 2 /\ dh.atk.keyed)
          => dh.atk.ret = dh.atk.len /\ Len(dh.atk.out) = dh.atk.len

C4_Witness ==
  /\ dh.atk.called
  /\ dh.atk.keyed
  /\ SecretLenAsserted(dh.atk.len)
  /\ AtkValue = DH_P - 1
  /\ Len(dh.atk.peer) > crypto_dh_get_bytes
  /\ AtkRejected

\* C5: crypto_dh_get_public fails whenever pubkey_len < DH_BYTES; otherwise
\* it succeeds and writes pubkey_len bytes, zero bytes followed by the
\* big-endian bytes of g^x; and the key is generated at most once.
C5_GetPublic ==
  \A w \in Parties :
    (dh.wire[w].called /\ dh.st[w].keyed /\ dh.pc[w] = "idle")
    => LET r == dh.wire[w]
           raw == BN_bn2bin(dh.st[w].pub)
       IN /\ r.len < crypto_dh_get_bytes => r.ret = -1
          /\ r.len >= crypto_dh_get_bytes
               => r.ret = 0 /\ r.bytes = Zeros(r.len - Len(raw)) \o raw
          /\ dh.gens[w] <= 1

\* C6: crypto_global_init is idempotent.  Once one call has returned 0,
\* every later call, with any useAccel, returns 0 and allocates no mutexes,
\* installs no callback, registers no engine and does not seed the RNG.
C6_Idempotent ==
  gl.ok_seen
  => /\ gl.last.op = "init" => gl.last.ret = 0
     /\ gl.work = gl.work_at_ok

\* A call asking for engines returned 0 after an earlier call without
\* engines had seeded the RNG and returned 0, cleanup calls in between or
\* not.
C6_Witness ==
  /\ gl.ok_seen
  /\ gl.seeded
  /\ gl.last.op = "init"
  /\ gl.last.accel = 1
  /\ gl.last.ret = 0
  /\ gl.work.engines = 0
  /\ gl.calls >= 3

\* C7: a crypto_global_init call returns 0 only if RNG seeding, and engine
\* registration when the initialising call asked for it, have succeeded in
\* that call or an earlier one.
C7_SuccessMeansInitialised ==
  (gl.last.op = "init" /\ gl.last.ret = 0)
  => /\ gl.seeded
     /\ gl.engine_asked => gl.engines

\* C8: an object created with one reference and then only duplicated and
\* freed (f <= d + 1) has refs = 1 + d - f >= 1 while a holder remains, its
\* RSA untouched; the free that drops the count to 0 releases the object
\* and frees its RSA, which is thus freed exactly once.
C8_RefCount ==
  \A e \in EnvIds :
    (pk.env[e].state # "none" /\ ~pk.env[e].rekeyed)
    => LET v == pk.env[e]
           key == pk.rsa[v.key]
       IN /\ Holders(e) > 0
               => /\ v.state = "live"
                  /\ v.refs = 1 + v.dups - v.frees
                  /\ v.refs >= 1
                  /\ key.state = "live"
                  /\ key.frees = 0
          /\ Holders(e) = 0
               => /\ v.state = "freed"
                  /\ v.refs = 0
                  /\ key.state = "freed"
                  /\ key.frees = 1

C8_Witness ==
  \E e \in EnvIds :
    /\ ~pk.env[e].rekeyed
    /\ pk.env[e].dups = MaxDups
    /\ pk.env[e].frees = MaxDups + 1
    /\ pk.env[e].state = "freed"
    /\ pk.rsa[pk.env[e].key].frees = 1

\* C9: after any sequence of public-key operations on an object that is
\* still reachable, failed ones included, the key pointer is non-null.
C9_KeyNonNull ==
  \A e \in EnvIds :
    (pk.env[e].state = "live" /\ Holders(e) > 0) => pk.env[e].key # NULL

\* The object the last call was made on holds a public-only key.
LastOnPublicOnly ==
  /\ pk.last.op \in PrivateOps
  /\ pk.env[pk.last.env].key # NULL
  /\ LET key == pk.rsa[pk.env[pk.last.env].key]
     IN key.state = "live" /\ key.n /\ ~key.p

\* C10 as stated: each of the six operations that need a private key
\* returns -1 on a public-only key, rather than aborting or proceeding.
C10_AllReturnFailure ==
  LastOnPublicOnly => pk.last.status = Returned /\ pk.last.ret = -1

\* C10 as amended: on a public-only key crypto_pk_private_decrypt,
\* crypto_pk_private_sign, crypto_pk_private_sign_digest and
\* crypto_pk_private_hybrid_decrypt return -1;
\* crypto_pk_write_private_key_to_filename dies on its assertion
\* PRIVATE_KEY_OK(env); crypto_pk_write_private_key_to_string makes no
\* check of its own and returns 0 or -1 as the PEM encoder decides.
C10_PublicOnly ==
  LastOnPublicOnly
  => CASE pk.last.op = "write_private_to_file" -> pk.last.status = Aborted
       [] pk.last.op = "write_private_to_string" ->
            pk.last.status = Returned /\ pk.last.ret \in {0, -1}
       [] OTHER -> pk.last.status = Returned /\ pk.last.ret = -1

C10_Witness ==
  /\ LastOnPublicOnly
  /\ pk.last.op = "hybrid_decrypt"
  /\ pk.last.status = Returned
  /\ pk.last.ret = -1

\* The comparison the last call made involved a null pointer or an object
\* whose key pointer is null.
CmpOnNull ==
  /\ pk.last.op = "cmp_keys"
  /\ \/ pk.last.env = NULL
     \/ pk.last.other = NULL
     \/ pk.env[pk.last.env].key = NULL
     \/ pk.env[pk.last.other].key = NULL

\* Both objects have an RSA, and one of them is a live RSA without modulus,
\* as crypto_new_pk_env leaves it.
CmpOnFresh ==
  /\ pk.last.op = "cmp_keys"
  /\ ~CmpOnNull
  /\ \E e \in {pk.last.env, pk.last.other} :
       pk.rsa[pk.env[e].key].state = "live" /\ ~pk.rsa[pk.env[e].key].n
  /\ \A e \in {pk.last.env, pk.last.other} : pk.rsa[pk.env[e].key].state = "live"

\* C11 as stated: crypto_pk_cmp_keys returns -1 and never aborts when an
\* operand is null, has a null key pointer, or is a fresh object whose key
\* has no modulus.
C11_EmptyComparesDifferent ==
  (CmpOnNull \/ CmpOnFresh) => pk.last.status = Returned /\ pk.last.ret = -1

\* C11 as amended: crypto_pk_cmp_keys returns -1 when an operand is null or
\* has a null key pointer; when both have a key and one of them has no
\* modulus it dies on tor_assert(PUBLIC_KEY_OK(..)).
C11_NullComparesDifferent ==
  /\ CmpOnNull => pk.last.status = Returned /\ pk.last.ret = -1
  /\ CmpOnFresh => pk.last.status = Aborted

C11_Witness ==
  /\ CmpOnNull
  /\ pk.last.env # NULL
  /\ pk.last.other # NULL
  /\ pk.env[pk.last.env].key = NULL
  /\ pk.env[pk.last.other].key # NULL
  /\ pk.last.ret = -1

\* C12: for every max with 0 < max < TYPE_MAX the value the caller of
\* crypto_rand_int / crypto_rand_uint64 receives, in the declared return
\* type, satisfies 0 <= r < max.
C12_InRange ==
  (call.op \in RandFunctions /\ call.pc = "done" /\ call.status = Returned)
  => 0 <= call.ret /\ call.ret < call.max

\* The raw values the loop accepts for this call, and those mapped to r.
RandAccepted == {v \in 0..RandTypeMax(call.op) : v < RandCutoff(call.op, call.max)}
RandPreimage(r) == {v \in RandAccepted : v % call.max = r}

\* C13: no modulo bias.  A raw draw is returned, as val mod max, only if it
\* is below cutoff = TYPE_MAX - (TYPE_MAX mod max) and is redrawn
\* otherwise, and each result in [0, max) is the image of exactly
\* cutoff / max accepted raw values.
C13_NoModuloBias ==
  (call.op \in RandFunctions /\ call.pc \in {"draw", "done"} /\ call.status # Aborted)
  => LET cutoff == RandTypeMax(call.op) - (RandTypeMax(call.op) % call.max)
     IN /\ call.rejected # -1 => call.rejected >= cutoff
        /\ call.pc = "done"
             => /\ call.val < cutoff
                /\ call.mod = call.val % call.max
                /\ call.ret % Pow2(RandBits(call.op)) = call.mod
        /\ (call.pc = "draw" /\ call.rejected = -1)   \* once for each max
             => \A r \in 0..(call.max - 1) :
                  Cardinality(RandPreimage(r)) = cutoff \div call.max

C13_Witness ==
  /\ call.op = "crypto_rand_int"
  /\ call.max = 3
  /\ call.pc = "done"
  /\ call.rejected = RandTypeMax(call.op)
  /\ call.ret = 2

\* ------------------------------------------------------------------
\* Base-64 decoding (the table-driven decoder; USE_OPENSSL_BASE64 is not
\* defined).  Characters are byte values.
X == 255
SP == 64
PAD == 65
SIZE_T_CEILING == 2147483631

\* base64_decode_table[c]: 0..63 for the alphabet, SP for the characters
\* that are skipped, PAD for '=', X for everything else.
base64_decode_table(c) ==
  IF c \in {9, 10, 11, 13, 32} THEN SP
  ELSE IF c = 43 THEN 62
  ELSE IF c = 47 THEN 63
  ELSE IF c \in 48..57 THEN c + 4
  ELSE IF c = 61 THEN PAD
  ELSE IF c \in 65..90 THEN c - 65
  ELSE IF c \in 97..122 THEN c - 71
  ELSE X

\* The end_of_loop switch with every leftover accepted.
base64_end_of_loop_lenient(n, n_idx, out) ==
  [ret |-> Len(out), out |-> out]

\* end_of_loop: what is left in n once the input or a '=' is reached.
base64_end_of_loop(n, n_idx, out) ==
  IF n_idx = 1 THEN [ret |-> -1, out |-> out]
  ELSE LET o == CASE n_idx = 0 -> out
                  [] n_idx = 2 -> out \o <<(n \div 16) % 256>>
                  [] n_idx = 3 -> out \o <<(n \div 1024) % 256, (n \div 4) % 256>>
       IN [ret |-> Len(o), out |-> o]

\* One pass of the for loop's body on character c: st holds n, n_idx, the
\* bytes written and whether the loop still runs, has met '=' ("end") or
\* has met an invalid character ("bad").
base64_decode_step(st, c) ==
  LET v == base64_decode_table(c)
      m == st.n * 64 + v
  IN IF st.at # "run" THEN st
     ELSE IF v = X THEN [st EXCEPT !.at = "bad"]
     ELSE IF v = SP THEN st
     ELSE IF v = PAD THEN [st EXCEPT !.at = "end"]
     ELSE IF st.n_idx + 1 = 4
       THEN [st EXCEPT !.n = 0, !.n_idx = 0,
                       !.out = @ \o <<m \div 65536, (m \div 256) % 256, m % 256>>]
       ELSE [st EXCEPT !.n = m, !.n_idx = @ + 1]

\* The body applied to src[lo..hi] in order, starting from st.
RECURSIVE base64_decode_run(_, _, _, _)
base64_decode_run(src, lo, hi, st) ==
  IF lo > hi THEN st
  ELSE IF lo = hi THEN base64_decode_step(st, src[lo])
  ELSE LET mid == (lo + hi) \div 2
           left == base64_decode_run(src, lo, mid, st)
       IN IF left.at = "bad" THEN left
          ELSE base64_decode_run(src, mid + 1, hi, left)

\* The for loop over src and what follows it.
base64_decode_loop(src) ==
  LET st == base64_decode_run(src, 1, Len(src),
                              [n |-> 0, n_idx |-> 0, out |-> <<>>, at |-> "run"])
  IN IF st.at = "bad" THEN [ret |-> -1, out |-> st.out]
     ELSE base64_end_of_loop(st.n, st.n_idx, st.out)

\* size_t has SizeBits bits (scaled down, as the widths of crypto_rand_int
\* are): a product of two size_t values keeps its low SizeBits bits.
SizeBits == 8
size_t_mul(a, b) == (a * b) % Pow2(SizeBits)

base64_decode(src, destlen) ==
  IF destlen < size_t_mul(Len(src), 3) \div 4 THEN [status |-> Returned, ret |-> -1, out |-> <<>>]
  ELSE IF destlen > SIZE_T_CEILING THEN [status |-> Returned, ret |-> -1, out |-> <<>>]
  ELSE LET r == base64_decode_loop(src)
       IN IF r.ret = -1 THEN [status |-> Returned, ret |-> -1, out |-> r.out]
          ELSE IF r.ret > destlen THEN [status |-> Aborted, ret |-> 0, out |-> r.out]
          ELSE [status |-> Returned, ret |-> r.ret, out |-> r.out]

\* Inputs: strings of at most MaxB64Len characters over 'Y', 'Q', '=' and
\* SP, and of at most MaxB64Short characters over those, '!' and TAB, LF,
\* VT, FF, CR; a destination of 0, of (srclen*3)/4 or of B64Roomy bytes.
MaxB64Len == 5
MaxB64Short == 3
B64Roomy == 64
B64Core == {89, 81, 61, 32}
B64Chars == B64Core \cup {33, 9, 10, 11, 12, 13}
\* The strings of length l that are tried.
B64Strings(l) == IF l <= MaxB64Short THEN [1..l -> B64Chars] ELSE [1..l -> B64Core]
B64Call(s, d) ==
  [op |-> "base64_decode", pc |-> "entry", src |-> s, destlen |-> d,
   status |-> Returned, ret |-> 0, out |-> <<>>]

Base64Decode ==
  /\ call.op = "base64_decode"
  /\ call.pc = "entry"
  /\ LET r == base64_decode(call.src, call.destlen)
     IN call' = [call EXCEPT !.pc = "done", !.status = r.status,
                             !.ret = r.ret, !.out = r.out]
  /\ UNCHANGED <<hy, dh, gl, pk>>

InitBase64 ==
  /\ hy = HyIdle /\ dh = DhIdle /\ gl = GlIdle /\ pk = PkIdle
  /\ \E l \in 0..MaxB64Len :
       \E s \in B64Strings(l) :
         \E d \in {0, (l * 3) \div 4, B64Roomy} : call = B64Call(s, d)
NextBase64 == Base64Decode
SpecBase64 == InitBase64 /\ [][NextBase64]_vars

\* The part of src the decoder looks at: up to the first '=' or the end.
B64Prefix(s) ==
  LET pads == {i \in 1..Len(s) : s[i] = 61}
  IN IF pads = {} THEN s
     ELSE SubSeq(s, 1, (CHOOSE i \in pads : \A j \in pads : i <= j) - 1)
B64IsAlphabet(c) == base64_decode_table(c) < 64
B64IsSkipped(c) == base64_decode_table(c) = SP
\* The 6-bit values of the alphabet characters of s, in order.
B64Values(s) ==
  LET a == SelectSeq(s, B64IsAlphabet)
  IN [i \in 1..Len(a) |-> base64_decode_table(a[i])]
\* Byte j of the bit string formed by the 6-bit values vals.
B64LeadingByte(vals, j) ==
  LET a == ((8 * (j - 1)) \div 6) + 1
      o == (8 * (j - 1)) % 6
      w == vals[a] * 64 + vals[a + 1]
  IN CASE o = 0 -> w \div 16
       [] o = 2 -> (w \div 4) % 256
       [] o = 4 -> w % 256
B64LeadingBytes(vals) ==
  [j \in 1..((6 * Len(vals)) \div 8) |-> B64LeadingByte(vals, j)]
B64Done == call.op = "base64_decode" /\ call.pc = "done"
B64Fits == call.destlen >= (Len(call.src) * 3) \div 4

\* C14: end-of-input rule of base64_decode.  When the input up to the first
\* '=' (or its end) holds only alphabet characters and skipped whitespace,
\* k of them alphabet characters, and the destination holds (srclen*3)/4
\* bytes: k mod 4 = 1 gives -1; otherwise the call returns floor(6k/8) and
\* the bytes are the leading bits of the 6-bit values.  What follows the
\* first '=' is not looked at.
C14_EndOfInput ==
  (/\ B64Done
   /\ B64Fits
   /\ \A i \in 1..Len(B64Prefix(call.src)) :
        B64IsAlphabet(B64Prefix(call.src)[i]) \/ B64IsSkipped(B64Prefix(call.src)[i]))
  => LET vals == B64Values(B64Prefix(call.src))
         k == Len(vals)
     IN /\ call.status = Returned
        /\ IF k % 4 = 1 THEN call.ret = -1
           ELSE /\ call.ret = (6 * k) \div 8
                /\ call.out = B64LeadingBytes(vals)

\* "YQ===" decodes to the single byte 'a'.
C14_Witness ==
  /\ B64Done
  /\ call.src = <<89, 81, 61, 61, 61>>
  /\ call.destlen = (Len(call.src) * 3) \div 4
  /\ call.ret = 1
  /\ call.out = <<97>>

C14_WitnessNoPad ==
  /\ B64Done
  /\ call.src = <<89, 81>>
  /\ call.ret = 1
  /\ call.out = <<97>>

\* The characters C15 lists as no-ops: TAB, LF, VT, FF, CR, SP.
B64ListedWhitespace == {9, 10, 11, 12, 13, 32}
B64NotListedWhitespace(c) == c \notin B64ListedWhitespace
B64Stripped(s) == SelectSeq(s, B64NotListedWhitespace)

\* C15: each of TAB, LF, VT, FF, CR and SP is a no-op for base64_decode.  A
\* string made of a valid base64 string and any number of these characters
\* decodes, given room, to the return value and bytes of the valid string
\* alone; any other character that is neither in the alphabet nor '=',
\* met before the first '=', makes the call return -1.
C15_WhitespaceIsNoOp ==
  (B64Done /\ B64Fits)
  => LET base == base64_decode(B64Stripped(call.src), call.destlen)
         pre == B64Prefix(call.src)
     IN /\ ((\A i \in 1..Len(call.src) :
               \/ B64IsAlphabet(call.src[i])
               \/ call.src[i] = 61
               \/ call.src[i] \in B64ListedWhitespace)
            /\ base.ret >= 0)
           => call.ret = base.ret /\ call.out = base.out
        /\ (\E i \in 1..Len(pre) :
              /\ ~B64IsAlphabet(pre[i])
              /\ pre[i] \notin B64ListedWhitespace)
           => call.ret = -1

\* ------------------------------------------------------------------
\* Base-64 encoding (through the library's EVP encoder) and base-32

\* The URL-safe alphabet: '-' and '_' for the values 62 and 63.
EVP_EncodeChar_urlsafe(v) ==
  IF v < 26 THEN 65 + v
  ELSE IF v < 52 THEN 71 + v
  ELSE IF v < 62 THEN v - 4
  ELSE IF v = 62 THEN 45 ELSE 95

\* The alphabet character for the 6-bit value v.
EVP_EncodeChar(v) ==
  IF v < 26 THEN 65 + v
  ELSE IF v < 52 THEN 71 + v
  ELSE IF v < 62 THEN v - 4
  ELSE IF v = 62 THEN 43 ELSE 47

\* EVP_EncodeBlock: 4 characters for every 3 bytes of b, the last group
\* padded with '='.
EVP_EncodeBlock(b) ==
  [i \in 1..(4 * ((Len(b) + 2) \div 3)) |->
     LET q == (i - 1) \div 4
         r == (i - 1) % 4
         b1 == IF 3 * q + 2 <= Len(b) THEN b[3 * q + 2] ELSE 0
         b2 == IF 3 * q + 3 <= Len(b) THEN b[3 * q + 3] ELSE 0
         w == b[3 * q + 1] * 65536 + b1 * 256 + b2
     IN CASE r = 0 -> EVP_EncodeChar(w \div 262144)
          [] r = 1 -> EVP_EncodeChar((w \div 4096) % 64)
          [] r = 2 -> IF 3 * q + 2 > Len(b) THEN 61
                      ELSE EVP_EncodeChar((w \div 64) % 64)
          [] r = 3 -> IF 3 * q + 3 > Len(b) THEN 61
                      ELSE EVP_EncodeChar(w % 64)]

\* EVP_EncodeUpdate followed by EVP_EncodeFinal: every 48 bytes of input
\* become a line of 64 characters and a newline, and so does what is left.
RECURSIVE EVP_Encode(_)
EVP_Encode(b) ==
  IF Len(b) = 0 THEN <<>>
  ELSE IF Len(b) <= 48 THEN EVP_EncodeBlock(b) \o <<10>>
  ELSE EVP_EncodeBlock(SubSeq(b, 1, 48)) \o <<10>> \o EVP_Encode(SubSeq(b, 49, Len(b)))

base64_encode(src, destlen) ==
  IF destlen < ((Len(src) \div 48) + 1) * 66 THEN [status |-> Returned, ret |-> -1, out |-> <<>>]
  ELSE IF destlen > SIZE_T_CEILING THEN [status |-> Returned, ret |-> -1, out |-> <<>>]
  ELSE [status |-> Returned, ret |-> Len(EVP_Encode(src)), out |-> EVP_Encode(src)]

\* BASE32_CHARS[u]
BASE32_CHARS(u) == IF u < 26 THEN 97 + u ELSE 24 + u

\* The second source byte read in every pass of the loop.
base32_reads_second_always(bit, nbits) == TRUE

\* "if (bit+5<nbits)": whether the pass at bit reads src[(bit/8)+1].
base32_reads_second(bit, nbits) == bit + 5 < nbits

\* base32_encode; out is dest without its terminating NUL.
base32_encode(src, destlen) ==
  LET nbits == Len(src) * 8
  IN IF nbits % 5 # 0 \/ (nbits \div 5) + 1 > destlen \/ destlen >= SIZE_T_CEILING
       THEN [status |-> Aborted, out |-> <<>>]
       ELSE [status |-> Returned,
             out |-> [k \in 1..(nbits \div 5) |->
                        LET bit == 5 * (k - 1)
                            v == src[(bit \div 8) + 1] * 256
                                   + (IF base32_reads_second(bit, nbits)
                                        THEN src[(bit \div 8) + 2] ELSE 0)
                            u == (v \div Pow2(11 - (bit % 8))) % 32
                        IN BASE32_CHARS(u)]]

\* The character conversion with the lower-case letters and 2-7 only.
base32_value_lowercase(c) ==
  IF c > 96 /\ c < 123 THEN c - 97
  ELSE IF c > 49 /\ c < 56 THEN c - 24
  ELSE -1

\* The 5-bit value of a base-32 character, -1 for an illegal one.
base32_value(c) ==
  IF c > 96 /\ c < 123 THEN c - 97
  ELSE IF c > 49 /\ c < 56 THEN c - 24
  ELSE IF c > 64 /\ c < 91 THEN c - 65
  ELSE -1

base32_decode(src, destlen) ==
  LET nbits == Len(src) * 5
      tmp == [j \in 1..Len(src) |-> base32_value(src[j])]
  IN IF nbits % 8 # 0 \/ (nbits \div 8) > destlen \/ destlen >= SIZE_T_CEILING
       THEN [status |-> Aborted, ret |-> 0, out |-> <<>>]
     ELSE IF \E j \in 1..Len(src) : tmp[j] = -1
       THEN [status |-> Returned, ret |-> -1, out |-> <<>>]
     ELSE [status |-> Returned, ret |-> 0,
           out |-> [k \in 1..(nbits \div 8) |->
                      LET bit == 8 * (k - 1)
                          t == (bit \div 5) + 1
                      IN (CASE bit % 40 = 0 -> tmp[t] * 8 + (tmp[t + 1] \div 4)
                            [] bit % 40 = 8 -> tmp[t] * 64 + tmp[t + 1] * 2 + (tmp[t + 2] \div 16)
                            [] bit % 40 = 16 -> tmp[t] * 16 + (tmp[t + 1] \div 2)
                            [] bit % 40 = 24 -> tmp[t] * 128 + tmp[t + 1] * 4 + (tmp[t + 2] \div 8)
                            [] bit % 40 = 32 -> tmp[t] * 32 + tmp[t + 1]) % 256]]

\* base32_decode on its own.  Inputs: up to MaxB32Var characters over
\* a z 2 7 A Z 0 1 8 9 ` and byte 200, alone (a length base32_decode
\* asserts against, unless empty) or followed by 'a's up to 8 characters.
MaxB32Var == 3
B32Chars == {97, 122, 50, 55, 65, 90, 48, 49, 56, 57, 96, 200}
B32Call(s) ==
  [op |-> "base32_decode", pc |-> "entry", src |-> s,
   destlen |-> (Len(s) * 5 + 7) \div 8,
   status |-> Returned, ret |-> 0, out |-> <<>>]

Base32Decode ==
  /\ call.op = "base32_decode"
  /\ call.pc = "entry"
  /\ LET r == base32_decode(call.src, call.destlen)
     IN call' = [call EXCEPT !.pc = "done", !.status = r.status,
                             !.ret = r.ret, !.out = r.out]
  /\ UNCHANGED <<hy, dh, gl, pk>>

InitBase32 ==
  /\ hy = HyIdle /\ dh = DhIdle /\ gl = GlIdle /\ pk = PkIdle
  /\ \E l \in 0..MaxB32Var :
       \E w \in [1..l -> B32Chars] :
         \E fill \in BOOLEAN :
           call = B32Call(IF fill THEN w \o [i \in 1..(8 - l) |-> 97] ELSE w)
NextBase32 == Base32Decode
SpecBase32 == InitBase32 /\ [][NextBase32]_vars

\* Encoding followed by decoding.  Inputs: byte strings of at most MaxRtLen
\* bytes over 0, 165, 255 and one patterned string of each length in
\* RtLongLens; destinations of the capacity each function asks for.
MaxRtLen == 5
RtBytes == {0, 165, 255}
RtLongLens == {10, 15, 47, 48, 49, 50}
RtLong(l) == [i \in 1..l |-> (i * 37 + 200) % 256]
RtCall(f, s) ==
  [op |-> f, pc |-> "entry", src |-> s,
   enc |-> [status |-> Returned, ret |-> 0, out |-> <<>>],
   dec |-> [status |-> Returned, ret |-> 0, out |-> <<>>]]

Base64Encode ==
  /\ call.op = "base64"
  /\ call.pc = "entry"
  /\ call' = [call EXCEPT !.pc = "encoded",
                          !.enc = base64_encode(call.src, ((Len(call.src) \div 48) + 1) * 66)]
  /\ UNCHANGED <<hy, dh, gl, pk>>

Base64DecodeEncoded ==
  /\ call.op = "base64"
  /\ call.pc = "encoded"
  /\ call.enc.status = Returned /\ call.enc.ret >= 0
  /\ call' = [call EXCEPT !.pc = "done",
                          !.dec = base64_decode(call.enc.out, (Len(call.enc.out) * 3) \div 4)]
  /\ UNCHANGED <<hy, dh, gl, pk>>

Base32Encode ==
  /\ call.op = "base32"
  /\ call.pc = "entry"
  /\ LET r == base32_encode(call.src, ((Len(call.src) * 8) \div 5) + 1)
     IN call' = [call EXCEPT !.pc = "encoded",
                             !.enc = [status |-> r.status, ret |-> 0, out |-> r.out]]
  /\ UNCHANGED <<hy, dh, gl, pk>>

Base32DecodeEncoded ==
  /\ call.op = "base32"
  /\ call.pc = "encoded"
  /\ call.enc.status = Returned
  /\ call' = [call EXCEPT !.pc = "done",
                          !.dec = base32_decode(call.enc.out, (Len(call.enc.out) * 5) \div 8)]
  /\ UNCHANGED <<hy, dh, gl, pk>>

InitRoundTrip ==
  /\ hy = HyIdle /\ dh = DhIdle /\ gl = GlIdle /\ pk = PkIdle
  /\ \E f \in {"base64", "base32"} :
       \/ \E l \in 0..MaxRtLen : \E s \in [1..l -> RtBytes] : call = RtCall(f, s)
       \/ \E l \in RtLongLens : call = RtCall(f, RtLong(l))
NextRoundTrip ==
  Base64Encode \/ Base64DecodeEncoded \/ Base32Encode \/ Base32DecodeEncoded
SpecRoundTrip == InitRoundTrip /\ [][NextRoundTrip]_vars

\* C16: Base-N round trip.  For every s whose length is a multiple of 5,
\* base32_decode(base32_encode(s)) succeeds (returns 0) and yields s; for
\* every s, base64_decode(base64_encode(s)) returns Len(s) and yields s.
C16_RoundTrip ==
  /\ (call.op = "base32" /\ Len(call.src) % 5 = 0)
       => /\ call.pc = "encoded" => call.enc.status = Returned
          /\ call.pc = "done"
               => /\ call.dec.status = Returned
                  /\ call.dec.ret = 0
                  /\ call.dec.out = call.src
  /\ call.op = "base64"
       => /\ call.pc = "encoded"
               => call.enc.status = Returned /\ call.enc.ret >= 0
          /\ call.pc = "done"
               => /\ call.dec.status = Returned
                  /\ call.dec.ret = Len(call.src)
                  /\ call.dec.out = call.src

\* 49 bytes: two lines of base-64, the round trip crosses a newline.
C16_Witness ==
  /\ call.op = "base64"
  /\ call.pc = "done"
  /\ Len(call.src) = 49
  /\ \E i \in 1..Len(call.enc.out) : i < Len(call.enc.out) /\ call.enc.out[i] = 10
  /\ call.dec.out = call.src

C16_WitnessBase32 ==
  /\ call.op = "base32"
  /\ call.pc = "done"
  /\ Len(call.src) = 10
  /\ Len(call.enc.out) = 16
  /\ call.dec.out = call.src

B32Done == call.op = "base32_decode" /\ call.pc = "done"
B32ValidLength == (Len(call.src) * 5) % 8 = 0
B32Lowercase == (97..122) \cup (50..55)
B32Uppercase == 65..90
B32ToLower(s) == [i \in 1..Len(s) |-> IF s[i] \in B32Uppercase THEN s[i] + 32 ELSE s[i]]

\* C17 as stated: base32_decode returns -1 for every input with a
\* character outside "abcdefghijklmnopqrstuvwxyz234567" and succeeds for
\* every input of valid length drawn from it.
C17_LowercaseOnly ==
  (B32Done /\ B32ValidLength)
  => /\ call.status = Returned
     /\ (\E i \in 1..Len(call.src) : call.src[i] \notin B32Lowercase) => call.ret = -1
     /\ (\A i \in 1..Len(call.src) : call.src[i] \in B32Lowercase) => call.ret = 0

\* C17 as amended: on an input of valid length base32_decode returns -1
\* exactly when some character is outside a-z, A-Z and 2-7; an upper-case
\* letter decodes as its lower-case form; an input whose length is not a
\* multiple of 8 stops on the assertion at entry.
C17_EitherCase ==
  B32Done
  => IF B32ValidLength
       THEN /\ call.status = Returned
            /\ call.ret = (IF \A i \in 1..Len(call.src) :
                                call.src[i] \in B32Lowercase \cup B32Uppercase
                           THEN 0 ELSE -1)
            /\ call.ret = 0 => call.out = base32_decode(B32ToLower(call.src), call.destlen).out
       ELSE call.status = Aborted

\* "AZ7aaaaa" is accepted.
C17_Witness ==
  /\ B32Done
  /\ call.src = <<65, 90, 55, 97, 97, 97, 97, 97>>
  /\ call.status = Returned
  /\ call.ret = 0
  /\ call.out = <<6, 126, 0, 0, 0>>

\* ------------------------------------------------------------------
\* Key fingerprints.  A C string is the sequence of its characters; the
\* byte after the last one is the terminating NUL.
HEX_DIGEST_LEN == 40
FINGERPRINT_LEN == 49

\* s[i] of the code, i counted from 0.
CharAt(s, i) == IF i < Len(s) THEN s[i + 1] ELSE 0

\* TOR_ISXDIGIT and TOR_ISSPACE as the fingerprint format describes them:
\* an upper-case hexadecimal digit; a whitespace character.
TOR_ISXDIGIT(c) == c \in (48..57) \cup (65..70)
TOR_ISSPACE(c) == c \in {9, 10, 11, 12, 13, 32}

\* base16_encode: two upper-case hexadecimal digits for each byte.
HexDigit(v) == IF v < 10 THEN 48 + v ELSE 55 + v
base16_encode(src) ==
  [k \in 1..(2 * Len(src)) |->
     IF k % 2 = 1 THEN HexDigit(src[(k + 1) \div 2] \div 16)
     ELSE HexDigit(src[k \div 2] % 16)]

\* add_spaces_to_fp: a space after every four characters that are followed
\* by more input; the assertion fails when outlen bytes do not hold the
\* result and its NUL.
add_spaces_to_fp(outlen, in) ==
  LET full == IF Len(in) = 0 THEN 0 ELSE Len(in) + ((Len(in) - 1) \div 4)
  IN IF full >= outlen THEN [status |-> Aborted, out |-> <<>>]
     ELSE [status |-> Returned,
           out |-> [k \in 1..full |-> IF k % 5 = 0 THEN 32 ELSE in[k - (k \div 5)]]]

\* crypto_pk_get_fingerprint once crypto_pk_get_digest has given digest.
crypto_pk_get_fingerprint(digest, add_space) ==
  LET hexdigest == base16_encode(digest)
  IN IF add_space
       THEN LET r == add_spaces_to_fp(FINGERPRINT_LEN + 1, hexdigest)
            IN [status |-> r.status, ret |-> 0, fp_out |-> r.out]
       ELSE [status |-> Returned, ret |-> 0, fp_out |-> hexdigest]

\* The check without the test of s[FINGERPRINT_LEN].
crypto_pk_check_fingerprint_syntax_prefix(s) ==
  IF \E i \in 0..(FINGERPRINT_LEN - 1) :
       IF i % 5 = 4 THEN ~TOR_ISSPACE(CharAt(s, i)) ELSE ~TOR_ISXDIGIT(CharAt(s, i))
    THEN 0
    ELSE 1

crypto_pk_check_fingerprint_syntax(s) ==
  IF \E i \in 0..(FINGERPRINT_LEN - 1) :
       IF i % 5 = 4 THEN ~TOR_ISSPACE(CharAt(s, i)) ELSE ~TOR_ISXDIGIT(CharAt(s, i))
    THEN 0
    ELSE IF CharAt(s, FINGERPRINT_LEN) # 0 THEN 0
    ELSE 1

\* Digests, and the characters a caller may put into a string it checks:
\* '0' '9' 'A' 'F' 'G' 'a' 'f' '@' SP TAB '-'.
FpDigests ==
  {[i \in 1..DIGEST_LEN |-> 0], [i \in 1..DIGEST_LEN |-> 255],
   [i \in 1..DIGEST_LEN |-> (i * 37 + 11) % 256]}
FpProbes == {48, 57, 65, 70, 71, 97, 102, 64, 32, 9, 45}
FpCalls ==
  {[op |-> "fingerprint", pc |-> "entry", digest |-> d, add_space |-> a,
    s |-> <<>>, status |-> Returned, ret |-> 0, ok |-> -1] :
     d \in FpDigests, a \in BOOLEAN}

GetFingerprint ==
  /\ call.op = "fingerprint"
  /\ call.pc = "entry"
  /\ LET r == crypto_pk_get_fingerprint(call.digest, call.add_space)
     IN call' = [call EXCEPT !.pc = "printed", !.status = r.status,
                             !.ret = r.ret, !.s = r.fp_out]
  /\ UNCHANGED <<hy, dh, gl, pk>>

\* The caller checks some other string: one character of the fingerprint
\* replaced, one appended, or the last one dropped.
FpAlter ==
  /\ call.op = "fingerprint"
  /\ call.pc = "printed"
  /\ \/ \E i \in 1..Len(call.s), c \in FpProbes :
          call' = [call EXCEPT !.pc = "altered", !.s = [call.s EXCEPT ![i] = c]]
     \/ \E c \in FpProbes :
          call' = [call EXCEPT !.pc = "altered", !.s = Append(call.s, c)]
     \/ call' = [call EXCEPT !.pc = "altered", !.s = SubSeq(call.s, 1, Len(call.s) - 1)]
  /\ UNCHANGED <<hy, dh, gl, pk>>

CheckFingerprintSyntax ==
  /\ call.op = "fingerprint"
  /\ call.pc \in {"printed", "altered"}
  /\ call' = [call EXCEPT !.pc = IF call.pc = "printed" THEN "checked" ELSE "checked_altered",
                          !.ok = crypto_pk_check_fingerprint_syntax(call.s)]
  /\ UNCHANGED <<hy, dh, gl, pk>>

InitFingerprint ==
  /\ hy = HyIdle /\ dh = DhIdle /\ gl = GlIdle /\ pk = PkIdle
  /\ call \in FpCalls
NextFingerprint == GetFingerprint \/ FpAlter \/ CheckFingerprintSyntax
SpecFingerprint == InitFingerprint /\ [][NextFingerprint]_vars

FpUpperHex == (48..57) \cup (65..70)
FpWhitespace == {9, 10, 11, 12, 13, 32}

C18_WitnessRejected ==
  /\ call.op = "fingerprint"
  /\ call.pc = "checked_altered"
  /\ Len(call.s) = 50
  /\ call.ok = 0

\* ------------------------------------------------------------------
\* Counter-mode cipher objects and the IV-prefixed envelope.  A cipher is
\* [key, iv, pos]: the key, the counter value last installed and the number
\* of keystream bytes used since.
CIPHER_IV_LEN == 16

\* Keystream byte number pos (from 0) after iv was installed under key.
CtrStreamByte(key, iv, pos) ==
  (KeyMix(key, 1) * 13 + KeyMix(iv, 1) * 31 + pos * 29 + 7) % 256

\* crypto_cipher_set_iv that leaves the counter where it is.
crypto_cipher_set_iv_keep(env, iv) == env

\* crypto_cipher_set_iv: aes_set_iv restarts the counter at iv.
crypto_cipher_set_iv(env, iv) == [env EXCEPT !.iv = iv, !.pos = 0]

\* crypto_cipher_encrypt: aes_crypt xors with the keystream and advances
\* the counter.
crypto_cipher_encrypt(env, from) ==
  [env |-> [env EXCEPT !.pos = @ + Len(from)],
   to |-> [i \in 1..Len(from) |->
             Xor8(from[i], CtrStreamByte(env.key, env.iv, env.pos + i - 1))]]

\* crypto_cipher_encrypt_with_iv; rnd is what crypto_cipher_generate_iv
\* writes to the first CIPHER_IV_LEN bytes of to.
crypto_cipher_encrypt_with_iv(cipher, tolen, from, rnd) ==
  IF Len(from) < 1 THEN [ret |-> -1, to |-> <<>>, env |-> cipher]
  ELSE IF tolen < Len(from) + CIPHER_IV_LEN THEN [ret |-> -1, to |-> <<>>, env |-> cipher]
  ELSE LET r == crypto_cipher_encrypt(crypto_cipher_set_iv(cipher, rnd), from)
       IN [ret |-> Len(from) + CIPHER_IV_LEN, to |-> rnd \o r.to, env |-> r.env]

crypto_cipher_decrypt_with_iv(cipher, tolen, from) ==
  IF Len(from) <= CIPHER_IV_LEN THEN [ret |-> -1, to |-> <<>>, env |-> cipher]
  ELSE IF tolen < Len(from) - CIPHER_IV_LEN THEN [ret |-> -1, to |-> <<>>, env |-> cipher]
  ELSE LET r == crypto_cipher_encrypt(
                  crypto_cipher_set_iv(cipher, SubSeq(from, 1, CIPHER_IV_LEN)),
                  SubSeq(from, CIPHER_IV_LEN + 1, Len(from)))
       IN [ret |-> Len(from) - CIPHER_IV_LEN, to |-> r.to, env |-> r.env]

\* Inputs: messages of at most MaxIvMsg bytes, the keys of SymKeys, three
\* values for an IV, ciphers that have used 0 or MaxIvPos keystream bytes
\* since their last IV, a destination one byte short or just large enough.
MaxIvMsg == 3
MaxIvPos == 5
IvValues ==
  {[i \in 1..CIPHER_IV_LEN |-> 0], [i \in 1..CIPHER_IV_LEN |-> 255],
   [i \in 1..CIPHER_IV_LEN |-> (i * 29 + 3) % 256]}
IvCiphers(k) == {[key |-> k, iv |-> v, pos |-> p] : v \in IvValues, p \in {0, MaxIvPos}}
IvCall(m, short, e, d) ==
  [op |-> "with_iv", pc |-> "entry", from |-> m, tolen |-> Len(m) + CIPHER_IV_LEN - short,
   iv |-> <<>>, enc |-> e, dec |-> d,
   sealed |-> [ret |-> 0, to |-> <<>>], opened |-> [ret |-> 0, to |-> <<>>]]

EncryptWithIv ==
  /\ call.op = "with_iv"
  /\ call.pc = "entry"
  /\ \E rnd \in IvValues :
       LET r == crypto_cipher_encrypt_with_iv(call.enc, call.tolen, call.from, rnd)
       IN call' = [call EXCEPT !.pc = "sealed", !.iv = rnd, !.enc = r.env,
                               !.sealed = [ret |-> r.ret, to |-> r.to]]
  /\ UNCHANGED <<hy, dh, gl, pk>>

DecryptWithIv ==
  /\ call.op = "with_iv"
  /\ call.pc = "sealed"
  /\ call.sealed.ret >= 0
  /\ LET r == crypto_cipher_decrypt_with_iv(call.dec, Len(call.sealed.to) - CIPHER_IV_LEN,
                                            call.sealed.to)
     IN call' = [call EXCEPT !.pc = "opened", !.dec = r.env,
                             !.opened = [ret |-> r.ret, to |-> r.to]]
  /\ UNCHANGED <<hy, dh, gl, pk>>

InitWithIv ==
  /\ hy = HyIdle /\ dh = DhIdle /\ gl = GlIdle /\ pk = PkIdle
  /\ \E l \in 0..MaxIvMsg, k \in SymKeys, short \in {0, 1} :
       \E m \in [1..l -> {0, 255}], e \in IvCiphers(k), d \in IvCiphers(k) :
         call = IvCall(m, short, e, d)
NextWithIv == EncryptWithIv \/ DecryptWithIv
SpecWithIv == InitWithIv /\ [][NextWithIv]_vars

\* C19: IV-prefixed envelope round trip.  For a message of len >= 1 and a
\* destination of at least len + 16 bytes, crypto_cipher_encrypt_with_iv
\* writes the generated IV to the first 16 bytes, installs it as the
\* counter and returns len + 16; crypto_cipher_decrypt_with_iv of that by a
\* cipher with the same key returns len and the message, wherever the two
\* ciphers' counters were before.
C19_EnvelopeRoundTrip ==
  (/\ call.op = "with_iv"
   /\ call.pc \in {"sealed", "opened"}
   /\ Len(call.from) >= 1
   /\ call.tolen >= Len(call.from) + CIPHER_IV_LEN)
  => /\ call.sealed.ret = Len(call.from) + 16
     /\ Len(call.sealed.to) = Len(call.from) + 16
     /\ SubSeq(call.sealed.to, 1, 16) = call.iv
     /\ call.enc.iv = call.iv
     /\ call.enc.pos = Len(call.from)
     /\ call.pc = "opened"
          => /\ call.opened.ret = Len(call.from)
             /\ call.opened.to = call.from

\* A three-byte round trip: the bytes after the IV are not the message, and
\* the decrypting cipher ends three bytes after the IV it was given.
C19_Witness ==
  /\ call.op = "with_iv"
  /\ call.pc = "opened"
  /\ Len(call.from) = 3
  /\ call.opened.to = call.from
  /\ call.sealed.to # call.iv \o call.from
  /\ call.dec.iv = call.iv
  /\ call.dec.pos = 3

\* C20: in crypto_dh_compute_secret the temporary buffer that receives the
\* raw shared secret g^xy holds only zeros when it is released, on the
\* success path and on every failure path that allocated it.
C20_SecretTmpZeroed ==
  dh.tmp.alloc => \A i \in 1..Len(dh.tmp.bytes) : dh.tmp.bytes[i] = 0

HyReleased(m) ==
  /\ m.buf.freed => \A i \in 1..m.buf.held : m.buf.bytes[i] = 0
  /\ m.cipher.freed => \A i \in 1..Len(m.cipher.key) : m.cipher.key[i] = 0
HyReturnedAfterAlloc(r, m) ==
  /\ (r.status = Returned /\ m.buf.alloc) => m.buf.freed
  /\ (r.status = Returned /\ m.cipher.alloc) => m.cipher.freed

\* C21: in crypto_pk_public_hybrid_encrypt and
\* crypto_pk_private_hybrid_decrypt every return path taken after buf was
\* allocated releases it, every byte of it that ever held key or plaintext
\* is zero at release, and the cipher object's key is zero when the object
\* is freed.
C21_HybridSecretsWiped ==
  /\ hy.phase \in {"encrypted", "decrypted"}
       => HyReleased(hy.encmem) /\ HyReturnedAfterAlloc(hy.enc, hy.encmem)
  /\ hy.phase = "decrypted"
       => HyReleased(hy.decmem) /\ HyReturnedAfterAlloc(hy.dec, hy.decmem)

\* A failed decryption (a public-only key) after a successful PKCS1
\* encryption that filled 53 bytes of the 65-byte buffer.
C21_Witness ==
  /\ hy.phase = "decrypted"
  /\ hy.encmem.buf.freed /\ hy.encmem.buf.held = 53 /\ Len(hy.encmem.buf.bytes) = 65
  /\ hy.encmem.cipher.freed
  /\ hy.dec.ret = -1
  /\ hy.decmem.buf.freed
  /\ ~hy.decmem.cipher.alloc

\* ------------------------------------------------------------------
\* The static locking callback against crypto_global_cleanup, step by
\* step.  call holds the two globals, the heap (the array block and each
\* mutex: "none", "live" or "freed"), the thread in crypto_global_cleanup
\* (cl) and the thread in the callback (cb).
CRYPTO_LOCK == 1
MaxCleanups == 2
MaxCallbacks == 2
LockIds == 0..(NumLocks - 1)

LkStart ==
  [op |-> "locking",
   initialized |-> FALSE,
   mutexes |-> "NULL",            \* _openssl_mutexes
   n_mutexes |-> 0,               \* _n_openssl_mutexes
   arr |-> "none",
   mtx |-> [i \in LockIds |-> "none"],
   clean |-> FALSE,               \* a cleanup has returned, no setup since
   cl |-> [pc |-> "idle", n |-> 0, i |-> 0, freed |-> 0, runs |-> 0],
   cb |-> [pc |-> "idle", mode |-> 0, n |-> 0, ptr |-> "NULL", after |-> FALSE,
           ops |-> 0, calls |-> 0],
   fault |-> "none"]

\* setup_openssl_threading, from the first crypto_global_init.
LkSetup ==
  /\ call.op = "locking" /\ call.fault = "none"
  /\ ~call.initialized
  /\ call.cl.pc = "idle" /\ call.cb.pc = "idle"
  /\ call' = [call EXCEPT !.initialized = TRUE, !.n_mutexes = NumLocks,
                          !.mutexes = "heap", !.arr = "live",
                          !.mtx = [i \in LockIds |-> "live"], !.clean = FALSE]
  /\ UNCHANGED <<hy, dh, gl, pk>>

\* crypto_global_cleanup: "if (_n_openssl_mutexes)" and, when it holds, the
\* copies to n and ms and the two stores that clear the globals.
ClEnter ==
  /\ call.op = "locking" /\ call.fault = "none"
  /\ call.cl.pc = "idle"
  /\ call.cl.runs < MaxCleanups
  /\ IF call.n_mutexes # 0
       THEN call' = [call EXCEPT !.cl.pc = "free", !.cl.n = call.n_mutexes,
                                 !.cl.i = 0, !.cl.freed = 0,
                                 !.mutexes = "NULL", !.n_mutexes = 0]
       ELSE call' = [call EXCEPT !.cl.pc = "return", !.cl.n = 0, !.cl.freed = 0]
  /\ UNCHANGED <<hy, dh, gl, pk>>

\* tor_mutex_free(ms[i])
ClFreeMutex ==
  /\ call.op = "locking" /\ call.fault = "none"
  /\ call.cl.pc = "free"
  /\ call.cl.i < call.cl.n
  /\ call' = [call EXCEPT !.mtx[call.cl.i] = "freed", !.cl.i = @ + 1,
                          !.cl.freed = @ + 1]
  /\ UNCHANGED <<hy, dh, gl, pk>>

\* tor_free(ms)
ClFreeArray ==
  /\ call.op = "locking" /\ call.fault = "none"
  /\ call.cl.pc = "free"
  /\ call.cl.i = call.cl.n
  /\ call' = [call EXCEPT !.arr = "freed", !.cl.pc = "return", !.cl.freed = @ + 1]
  /\ UNCHANGED <<hy, dh, gl, pk>>

ClReturn ==
  /\ call.op = "locking" /\ call.fault = "none"
  /\ call.cl.pc = "return"
  /\ call' = [call EXCEPT !.cl.pc = "idle", !.cl.runs = @ + 1, !.clean = TRUE]
  /\ UNCHANGED <<hy, dh, gl, pk>>

\* The library calls _openssl_locking_cb(mode, n, file, line).
CbEnter ==
  /\ call.op = "locking" /\ call.fault = "none"
  /\ call.cb.pc = "idle"
  /\ call.cb.calls < MaxCallbacks
  /\ \E mode \in {0, CRYPTO_LOCK}, n \in LockIds :
       call' = [call EXCEPT !.cb.pc = "test", !.cb.mode = mode, !.cb.n = n,
                            !.cb.ops = 0,
                            !.cb.after = call.clean /\ call.cl.pc = "idle"]
  /\ UNCHANGED <<hy, dh, gl, pk>>

\* The callback without its test of _openssl_mutexes.
openssl_locking_cb_test_absent(mutexes) == FALSE

\* "if (!_openssl_mutexes) return;"
openssl_locking_cb_test(mutexes) == mutexes = "NULL"

CbTest ==
  /\ call.op = "locking" /\ call.fault = "none"
  /\ call.cb.pc = "test"
  /\ IF openssl_locking_cb_test(call.mutexes)
       THEN call' = [call EXCEPT !.cb.pc = "idle", !.cb.calls = @ + 1]
       ELSE call' = [call EXCEPT !.cb.pc = "index", !.cb.ptr = call.mutexes]
  /\ UNCHANGED <<hy, dh, gl, pk>>

\* _openssl_mutexes[n]: the pointer is the one the test loaded or is loaded
\* again, as the compiler chose; the element is read from the array.
CbIndex ==
  /\ call.op = "locking" /\ call.fault = "none"
  /\ call.cb.pc = "index"
  /\ \E p \in {call.cb.ptr, call.mutexes} :
       call' = IF p = "NULL" THEN [call EXCEPT !.fault = "null_index"]
               ELSE IF call.arr = "freed" THEN [call EXCEPT !.fault = "array_after_free"]
               ELSE [call EXCEPT !.cb.pc = "lock"]
  /\ UNCHANGED <<hy, dh, gl, pk>>

\* tor_mutex_acquire / tor_mutex_release on the element read.
CbLock ==
  /\ call.op = "locking" /\ call.fault = "none"
  /\ call.cb.pc = "lock"
  /\ call' = IF call.mtx[call.cb.n] = "freed"
               THEN [call EXCEPT !.fault = "mutex_after_free"]
               ELSE [call EXCEPT !.cb.pc = "idle", !.cb.ops = @ + 1, !.cb.calls = @ + 1]
  /\ UNCHANGED <<hy, dh, gl, pk>>

InitLocking ==
  /\ hy = HyIdle /\ dh = DhIdle /\ gl = GlIdle /\ pk = PkIdle
  /\ call = LkStart
NextLocking ==
  \/ LkSetup \/ ClEnter \/ ClFreeMutex \/ ClFreeArray \/ ClReturn
  \/ CbEnter \/ CbTest \/ CbIndex \/ CbLock
SpecLocking == InitLocking /\ [][NextLocking]_vars

\* C22: once crypto_global_cleanup has completed, _openssl_mutexes is NULL
\* and _n_openssl_mutexes is 0; the locking callback entered after that,
\* with any mode and index, acquires and releases nothing and returns; a
\* cleanup that finds no mutexes (a second one, or one before any init)
\* frees nothing.
C22_NullSafeAfterCleanup ==
  call.op = "locking"
  => /\ (call.clean /\ call.cl.pc = "idle")
          => call.mutexes = "NULL" /\ call.n_mutexes = 0
     /\ call.cb.after
          => /\ call.cb.pc \in {"idle", "test"}
             /\ call.cb.ops = 0
             /\ call.fault = "none"
     /\ (call.cl.pc = "return" /\ call.cl.n = 0) => call.cl.freed = 0
     /\ (call.cl.pc = "return" /\ call.cl.runs >= 1 /\ call.clean) => call.cl.freed = 0

\* After an init and two cleanups the callback was entered and returned.
C22_Witness ==
  /\ call.op = "locking"
  /\ call.initialized
  /\ call.cl.runs = 2
  /\ call.arr = "freed"
  /\ call.cb.after
  /\ call.cb.pc = "idle"
  /\ call.cb.calls >= 1
  /\ call.cb.mode = CRYPTO_LOCK

\* C23: with the callback on one thread and crypto_global_cleanup on
\* another, the callback never acquires or releases a mutex that cleanup
\* has freed and never indexes the mutex array after it has been freed.
C23_NoUseAfterFree ==
  call.op = "locking"
  => call.fault \notin {"array_after_free", "mutex_after_free"}

\* ------------------------------------------------------------------
\* tor_check_dh_key on every value from 0 to p + MaxOverP.
MaxOverP == 3
DhCheckCall(bn) == [op |-> "tor_check_dh_key", pc |-> "entry", bn |-> bn, ret |-> 0]

DhCheckKey ==
  /\ call.op = "tor_check_dh_key"
  /\ call.pc = "entry"
  /\ call' = [call EXCEPT !.pc = "done", !.ret = tor_check_dh_key(call.bn)]
  /\ UNCHANGED <<hy, dh, gl, pk>>

InitDhCheck ==
  /\ hy = HyIdle /\ dh = DhIdle /\ gl = GlIdle /\ pk = PkIdle
  /\ \E bn \in 0..(DH_P + MaxOverP) : call = DhCheckCall(bn)
NextDhCheck == DhCheckKey
SpecDhCheck == InitDhCheck /\ [][NextDhCheck]_vars

\* C24: tor_check_dh_key accepts bn (returns 0) exactly when
\* 2 <= bn <= p - 2, and returns -1 for every bn <= 1 and every bn >= p - 1.
C24_AcceptsExactlyRange ==
  (call.op = "tor_check_dh_key" /\ call.pc = "done")
  => /\ call.ret \in {0, -1}
     /\ call.ret = 0 <=> (2 <= call.bn /\ call.bn <= DH_P - 2)

\* The largest accepted value, p - 2.
C24_Witness ==
  /\ call.op = "tor_check_dh_key" /\ call.pc = "done"
  /\ call.bn = DH_P - 2
  /\ call.ret = 0

\* The smallest rejected value above the range, p - 1.
C24_WitnessRejected ==
  /\ call.op = "tor_check_dh_key" /\ call.pc = "done"
  /\ call.bn = DH_P - 1
  /\ call.ret = -1

\* ------------------------------------------------------------------
\* crypto_dh_generate_public called on a DH object without keys.  tries
\* counts the passes of "again:" up to MaxGenTries ("MaxGenTries or more")
\* and lap is the parity of the exact count.
MaxGenTries == 12
GenPrivExps == (1..MaxPriv) \cup {DhOrder}

DhGenCall ==
  [op |-> "crypto_dh_generate_public", pc |-> "again", st |-> DhNew,
   tries |-> 0, lap |-> 0, genok |-> TRUE, ret |-> 0]

\* One pass of "again:" that returns 0 without tor_check_dh_key.
crypto_dh_generate_public_unchecked(ok, x) ==
  IF ~ok THEN [next |-> "return", ret |-> -1, st |-> DhNew]
  ELSE [next |-> "return", ret |-> 0,
        st |-> [keyed |-> TRUE, priv |-> x, pub |-> ModExp(DH_G, x, DH_P)]]

\* One pass of "again:" in crypto_dh_generate_public: DH_generate_key
\* fails (ok false) or draws x; an invalid g^x is freed before the goto.
crypto_dh_generate_public(ok, x) ==
  LET pub == ModExp(DH_G, x, DH_P)
  IN IF ~ok THEN [next |-> "return", ret |-> -1, st |-> DhNew]
     ELSE IF tor_check_dh_key(pub) < 0
       THEN [next |-> "again", ret |-> 0, st |-> DhNew]
     ELSE [next |-> "return", ret |-> 0,
           st |-> [keyed |-> TRUE, priv |-> x, pub |-> pub]]

DhGenerate ==
  /\ call.op = "crypto_dh_generate_public"
  /\ call.pc = "again"
  /\ \E ok \in BOOLEAN, x \in GenPrivExps :
       LET r == crypto_dh_generate_public(ok, x)
       IN call' = [call EXCEPT
                     !.pc = IF r.next = "again" THEN "again" ELSE "done",
                     !.st = r.st,
                     !.tries = IF @ < MaxGenTries THEN @ + 1 ELSE @,
                     !.lap = 1 - @,
                     !.genok = ok,
                     !.ret = r.ret]
  /\ UNCHANGED <<hy, dh, gl, pk>>

InitDhGen ==
  /\ hy = HyIdle /\ dh = DhIdle /\ gl = GlIdle /\ pk = PkIdle
  /\ call = DhGenCall
NextDhGen == DhGenerate
\* The calling thread keeps running, so a pass that can be made is made.
SpecDhGen == InitDhGen /\ [][NextDhGen]_vars /\ WF_vars(DhGenerate)

\* C25 as stated: crypto_dh_generate_public always returns, after a
\* bounded number of key-generation attempts.
C25_AlwaysReturns ==
  (call.op = "crypto_dh_generate_public" /\ call.pc = "again") ~> (call.pc = "done")

\* C25, amended: crypto_dh_generate_public returns 0 only with a stored
\* public value in [2, p-2], returns -1 only when DH_generate_key failed,
\* and goes back to "again:" with both keys cleared.
C25_ReturnsOnlyValid ==
  call.op = "crypto_dh_generate_public"
  => /\ (call.pc = "done" /\ call.ret = 0)
          => /\ call.st.keyed
             /\ 2 <= call.st.pub /\ call.st.pub <= DH_P - 2
             /\ call.genok
     /\ (call.pc = "done" /\ call.ret # 0) => (call.ret = -1 /\ ~call.genok)
     /\ call.pc = "again" => call.st = DhNew

\* Success on the third attempt, after two invalid values.
C25_Witness ==
  /\ call.op = "crypto_dh_generate_public"
  /\ call.pc = "done"
  /\ call.ret = 0
  /\ call.tries = 3

\* ------------------------------------------------------------------
\* smartlist_shuffle.  A list is a sequence; element k of the code is
\* sl[k + 1].  draws[i] is the j drawn in the pass with loop index i.
MaxShuffleLen == 4

smartlist_swap(sl, i, j) ==
  [k \in 1..Len(sl) |-> IF k = i + 1 THEN sl[j + 1]
                        ELSE IF k = j + 1 THEN sl[i + 1]
                        ELSE sl[k]]

\* A draw that never picks the current position itself.
ShuffleDraws_noself(i) == 0..(i - 1)

\* The values crypto_rand_int(i+1) may return.
ShuffleDraws(i) == 0..i

RECURSIVE ShuffleFrom(_, _, _)
\* The passes i, i-1, .., 1 of the loop with the draws d.
ShuffleFrom(sl, i, d) ==
  IF i > 0 THEN ShuffleFrom(smartlist_swap(sl, i, d[i]), i - 1, d) ELSE sl

\* smartlist_shuffle(sl) when crypto_rand_int returns d[i] in pass i.
smartlist_shuffle(sl, d) == ShuffleFrom(sl, Len(sl) - 1, d)

RECURSIVE DrawSeqs(_)
\* Every sequence of draws the loop can make on a list of n elements.
DrawSeqs(n) ==
  IF n <= 1 THEN {<<>>}
  ELSE UNION {{Append(d, j) : j \in ShuffleDraws(n - 1)} : d \in DrawSeqs(n - 1)}

\* Lists tried: 1..n in order, in reverse, and a list with repeated elements.
ShuffleLists(n) ==
  {[k \in 1..n |-> k], [k \in 1..n |-> n + 1 - k], [k \in 1..n |-> 1 + (k % 2)]}

ShuffleCall(sl) ==
  [op |-> "smartlist_shuffle", pc |-> "loop", orig |-> sl, sl |-> sl,
   i |-> Len(sl) - 1, draws |-> [k \in 1..(Len(sl) - 1) |-> -1]]

\* One pass of the for loop.
ShufflePass ==
  /\ call.op = "smartlist_shuffle"
  /\ call.pc = "loop"
  /\ call.i > 0
  /\ \E j \in ShuffleDraws(call.i) :
       call' = [call EXCEPT !.sl = smartlist_swap(call.sl, call.i, j),
                            !.draws[call.i] = j,
                            !.i = @ - 1]
  /\ UNCHANGED <<hy, dh, gl, pk>>

\* The loop test fails and the function returns.
ShuffleReturn ==
  /\ call.op = "smartlist_shuffle"
  /\ call.pc = "loop"
  /\ ~(call.i > 0)
  /\ call' = [call EXCEPT !.pc = "done"]
  /\ UNCHANGED <<hy, dh, gl, pk>>

InitShuffle ==
  /\ hy = HyIdle /\ dh = DhIdle /\ gl = GlIdle /\ pk = PkIdle
  /\ \E n \in 0..MaxShuffleLen : \E sl \in ShuffleLists(n) : call = ShuffleCall(sl)
NextShuffle == ShufflePass \/ ShuffleReturn
SpecShuffle == InitShuffle /\ [][NextShuffle]_vars

RECURSIVE Factorial(_)
Factorial(n) == IF n <= 1 THEN 1 ELSE n * Factorial(n - 1)

Occurrences(sl, v) == Cardinality({k \in 1..Len(sl) : sl[k] = v})
SameMultiset(a, b) ==
  /\ Len(a) = Len(b)
  /\ \A k \in 1..Len(a) : Occurrences(a, a[k]) = Occurrences(b, a[k])
AllDistinct(sl) == \A k \in 1..Len(sl) : Occurrences(sl, sl[k]) = 1

\* C26: smartlist_shuffle leaves a permutation of the original elements;
\* on a list of n distinct elements the n! sequences of draws j_i in [0, i]
\* give n! different lists, each from exactly one sequence; lists of
\* length 0 and 1 stay as they are and no draw is made.
C26_ShuffleIsBijection ==
  (call.op = "smartlist_shuffle" /\ call.pc = "done")
  => LET n == Len(call.orig)
         seqs == DrawSeqs(n)
     IN /\ SameMultiset(call.sl, call.orig)
        /\ call.sl = smartlist_shuffle(call.orig, call.draws)
        /\ \A k \in 1..(n - 1) : call.draws[k] \in 0..k
        /\ n <= 1 => (call.sl = call.orig /\ call.draws = <<>>)
        /\ AllDistinct(call.orig)
             => /\ Cardinality(seqs) = Factorial(n)
                /\ Cardinality({smartlist_shuffle(call.orig, d) : d \in seqs}) = Factorial(n)
                /\ Cardinality({d \in seqs : smartlist_shuffle(call.orig, d) = call.sl}) = 1

\* Four distinct elements come out fully reversed.
C26_Witness ==
  /\ call.op = "smartlist_shuffle" /\ call.pc = "done"
  /\ call.orig = <<1, 2, 3, 4>>
  /\ call.sl = <<4, 3, 2, 1>>

\* A one-element list has been through the function.
C26_WitnessSingle ==
  /\ call.op = "smartlist_shuffle" /\ call.pc = "done"
  /\ Len(call.orig) = 1

\* ------------------------------------------------------------------
\* secret_to_key: the iteration count and the loop that feeds the digest.
\* A call with a short secret keeps tmp and the bytes absorbed; a call with
\* a long secret keeps their lengths only.
EXPBIAS == 6
S2K_SALT_LEN == 8
MaxS2kSecret == 2
S2kBytes == {0, 7}

\* The count with the exponent bias left out.
s2k_count_nobias(c) == (16 + (c % 16)) * Pow2(c \div 16)

\* count = ((uint32_t)16 + (c & 15)) << ((c >> 4) + EXPBIAS)
s2k_count(c) == (16 + (c % 16)) * Pow2((c \div 16) + EXPBIAS)

\* One pass of "while (count)", secret_len being 8 + the secret's length:
\* the number of bytes of tmp given to crypto_digest_add_bytes and the
\* count left.
s2k_pass(count, secret_len) ==
  IF count >= secret_len
    THEN [add |-> secret_len, count |-> count - secret_len]
    ELSE [add |-> count, count |-> 0]

\* Secret lengths tried with the count n: the empty secret's neighbours
\* are in the short calls; these give one to five passes.
S2kLongLens(n) ==
  {n - S2K_SALT_LEN - 1, n - S2K_SALT_LEN, n - S2K_SALT_LEN + 1, n, 2 * n,
   (n \div 2) - S2K_SALT_LEN, (n \div 4) - 3}

S2kCall(c, salt, secret, secret_len, short) ==
  [op |-> "secret_to_key", pc |-> "loop", c |-> c, short |-> short,
   salt |-> salt, secret |-> secret,
   tmp |-> IF short THEN salt \o secret ELSE <<>>,
   tmplen |-> S2K_SALT_LEN + secret_len,
   count |-> s2k_count(c),
   absorbed |-> 0, stream |-> <<>>, passes |-> 0, partial |-> 0, after_partial |-> FALSE]

\* One pass of the while loop.
S2kPass ==
  /\ call.op = "secret_to_key"
  /\ call.pc = "loop"
  /\ call.count # 0
  /\ LET r == s2k_pass(call.count, call.tmplen)
     IN call' = [call EXCEPT
                   !.count = r.count,
                   !.absorbed = @ + r.add,
                   !.stream = IF call.short THEN @ \o SubSeq(call.tmp, 1, r.add) ELSE @,
                   !.passes = @ + 1,
                   !.partial = IF r.add < call.tmplen THEN r.add ELSE @,
                   !.after_partial = @ \/ call.partial # 0]
  /\ UNCHANGED <<hy, dh, gl, pk>>

\* The loop ends and the digest is taken.
S2kFinish ==
  /\ call.op = "secret_to_key"
  /\ call.pc = "loop"
  /\ call.count = 0
  /\ call' = [call EXCEPT !.pc = "done"]
  /\ UNCHANGED <<hy, dh, gl, pk>>

InitS2k ==
  /\ hy = HyIdle /\ dh = DhIdle /\ gl = GlIdle /\ pk = PkIdle
  /\ \/ \E salt \in {Zeros(S2K_SALT_LEN), [i \in 1..S2K_SALT_LEN |-> i]} :
          \E l \in 0..MaxS2kSecret : \E secret \in [1..l -> S2kBytes] :
            call = S2kCall(0, salt, secret, l, TRUE)
     \/ \E c \in 0..255 : \E l \in S2kLongLens(s2k_count(c)) :
          call = S2kCall(c, <<>>, <<>>, l, FALSE)
NextS2k == S2kPass \/ S2kFinish
SpecS2k == InitS2k /\ [][NextS2k]_vars

\* The first n bytes of salt || secret repeated without end.
S2kRepeated(tmp, n) == [p \in 1..n |-> tmp[((p - 1) % Len(tmp)) + 1]]

\* C27: secret_to_key absorbs exactly count = (16 + (c & 15)) << ((c >> 4) + 6)
\* bytes: whole copies of salt || secret followed by at most one truncated
\* copy, which comes last; count is below 2^32 for every c; the loop ends.
\* With a zero salt, c = 0 and an empty secret, 1024 zero bytes are absorbed.
C27_AbsorbsCountBytes ==
  call.op = "secret_to_key"
  => LET n == (16 + (call.c % 16)) * Pow2((call.c \div 16) + 6)
     IN /\ n \div 4 < Pow2(30)
        /\ call.absorbed + call.count = n
        /\ ~call.after_partial
        /\ call.partial < call.tmplen
        /\ call.absorbed = (call.passes - (IF call.partial # 0 THEN 1 ELSE 0)) * call.tmplen
                             + call.partial
        /\ call.short => call.stream = S2kRepeated(call.tmp, call.absorbed)
        /\ call.pc = "done"
             => /\ call.absorbed = n
                /\ call.count = 0
                /\ (n < call.tmplen) => (call.passes = 1 /\ call.partial = n)
                /\ (call.short /\ call.c = 0 /\ call.tmp = Zeros(S2K_SALT_LEN))
                     => call.stream = Zeros(1024)

\* The zero salt with c = 0 and the empty secret: 128 whole copies.
C27_Witness ==
  /\ call.op = "secret_to_key" /\ call.pc = "done"
  /\ call.short /\ call.c = 0
  /\ call.tmp = Zeros(S2K_SALT_LEN)
  /\ call.passes = 128
  /\ Len(call.stream) = 1024

\* The largest count, c = 255, with a secret so long that one truncated
\* copy is all that is absorbed.
C27_WitnessTruncated ==
  /\ call.op = "secret_to_key" /\ call.pc = "done"
  /\ call.c = 255
  /\ call.absorbed = 65011712
  /\ call.passes = 1
  /\ call.partial = 65011712

\* C28: when crypto_pk_generate_key returns 0 the object holds a freshly
\* generated, live key with both halves; a failed generation returns -1;
\* and on return env->key never points at the key RSA_free released.
C28_GenerateResult ==
  (pk.last.op = "generate" /\ pk.last.status = Returned)
  => LET e == pk.last.env
         k == pk.env[e].key
     IN /\ pk.last.ret \in {0, -1}
        /\ pk.last.ret = 0
             => (k # NULL /\ pk.rsa[k].state = "live" /\ pk.rsa[k].n /\ pk.rsa[k].p)
        /\ ~Dangling(e)

\* ------------------------------------------------------------------
\* The loop of base32_encode pass by pass, for the source bytes it reads.
\* first and second are the indices of the bytes the last pass read (-1 for
\* a byte not read), i the number of characters written.
MaxB32EncLen == 20

B32EncCall(srclen, destlen) ==
  [op |-> "base32_encode", pc |-> "entry", srclen |-> srclen, destlen |-> destlen,
   nbits |-> srclen * 8, bit |-> 0, i |-> 0, first |-> -1, second |-> -1]

\* The three assertions that open base32_encode.
B32EncEnter ==
  /\ call.op = "base32_encode"
  /\ call.pc = "entry"
  /\ call' = [call EXCEPT
                !.pc = IF \/ call.nbits % 5 # 0
                          \/ (call.nbits \div 5) + 1 > call.destlen
                          \/ call.destlen >= SIZE_T_CEILING
                         THEN "aborted" ELSE "loop"]
  /\ UNCHANGED <<hy, dh, gl, pk>>

\* One pass of "for (i=0,bit=0; bit < nbits; ++i, bit+=5)".
B32EncPass ==
  /\ call.op = "base32_encode"
  /\ call.pc = "loop"
  /\ call.bit < call.nbits
  /\ call' = [call EXCEPT
                !.first = call.bit \div 8,
                !.second = IF base32_reads_second(call.bit, call.nbits)
                             THEN (call.bit \div 8) + 1 ELSE -1,
                !.i = @ + 1,
                !.bit = @ + 5]
  /\ UNCHANGED <<hy, dh, gl, pk>>

\* The loop test fails; dest[i] = '\0'.
B32EncFinish ==
  /\ call.op = "base32_encode"
  /\ call.pc = "loop"
  /\ ~(call.bit < call.nbits)
  /\ call' = [call EXCEPT !.pc = "done"]
  /\ UNCHANGED <<hy, dh, gl, pk>>

InitBase32Enc ==
  /\ hy = HyIdle /\ dh = DhIdle /\ gl = GlIdle /\ pk = PkIdle
  /\ \E srclen \in 0..MaxB32EncLen :
       \E destlen \in {(srclen * 8) \div 5, ((srclen * 8) \div 5) + 1} :
         call = B32EncCall(srclen, destlen)
NextBase32Enc == B32EncEnter \/ B32EncPass \/ B32EncFinish
SpecBase32Enc == InitBase32Enc /\ [][NextBase32Enc]_vars

\* C29: base32_encode reads no source byte at an index >= srclen: in every
\* pass of the loop, for every srclen that is a multiple of 5, src[bit/8]
\* and, when it is read, src[bit/8 + 1] are inside the source.
C29_ReadsInsideSource ==
  (call.op = "base32_encode" /\ call.pc \in {"loop", "done"})
  => /\ call.srclen % 5 = 0
     /\ call.first < call.srclen
     /\ call.second < call.srclen
     /\ call.i > 0 => (call.first = (call.bit - 5) \div 8 /\ call.first >= 0)
     /\ call.i <= call.nbits \div 5

\* The pass at bit 30 of a 5-byte source read the last byte as its second.
C29_Witness ==
  /\ call.op = "base32_encode" /\ call.pc = "loop"
  /\ call.srclen = 5
  /\ call.bit = 35
  /\ call.first = 3
  /\ call.second = 4

\* The last pass on a 5-byte source read src[4] alone.
C29_WitnessLastPass ==
  /\ call.op = "base32_encode" /\ call.pc = "done"
  /\ call.srclen = 5
  /\ call.first = 4
  /\ call.second = -1

\* ------------------------------------------------------------------
\* base64_decode and the room in dest: short strings as before, and runs
\* of 'Y' of about a third of the largest size_t, closed by any character,
\* with a destination of 0 bytes, of the bytes the length test asks for,
\* of floor(3*srclen/4) bytes or of B64Roomy bytes.
B64LongPad == 2
B64LongLens == ((Pow2(SizeBits) \div 3) - B64LongPad)..((Pow2(SizeBits) \div 3) + B64LongPad)
B64Long(l, c) == [i \in 1..l |-> IF i < l THEN 89 ELSE c]

InitBase64Room ==
  /\ hy = HyIdle /\ dh = DhIdle /\ gl = GlIdle /\ pk = PkIdle
  /\ \/ \E l \in 0..MaxB64Short : \E s \in [1..l -> B64Chars] :
          \E d \in {0, (l * 3) \div 4, B64Roomy} : call = B64Call(s, d)
     \/ \E l \in B64LongLens : \E c \in B64Chars :
          \E d \in {0, size_t_mul(l, 3) \div 4, (l * 3) \div 4, B64Roomy} :
            call = B64Call(B64Long(l, c), d)
SpecBase64Room == InitBase64Room /\ [][NextBase64]_vars

\* C30: base64_decode never writes more than destlen bytes, on accepted
\* and on rejected inputs: it returns -1 before writing when
\* destlen < floor(3*srclen/4), it writes at most floor(3*srclen/4) bytes,
\* and its closing assertions on the output length do not fail.
C30_WritesWithinDest ==
  (call.op = "base64_decode" /\ call.pc = "done")
  => /\ Len(call.out) <= call.destlen
     /\ Len(call.out) <= (Len(call.src) * 3) \div 4
     /\ call.destlen < (Len(call.src) * 3) \div 4
          => (call.status = Returned /\ call.ret = -1 /\ call.out = <<>>)
     /\ call.status # Aborted

====
